---- MODULE Spec2Model ----
(***************************************************************************)
(* Model of the orchestration core of fl_bench / fluke:                    *)
(*   - Channel (src/fl_bench/channel.py): per-receiver mailboxes, send,    *)
(*     receive, broadcast, the "__action__" shortcut and the               *)
(*     message_received notification;                                      *)
(*   - ObserverSubject (src/fl_bench/__init__.py): attach / detach;        *)
(*   - Server.get_eligible_clients (src/fl_bench/server.py);               *)
(*   - Server.fit, Server.finalize and Server.aggregate                    *)
(*     (src/fl_bench/server.py), with the notifications to the server's    *)
(*     observers;                                                          *)
(*   - the Log observer (src/fl_bench/utils/__init__.py).                  *)
(*                                                                         *)
(* Spec       : the channel driven by arbitrary callers.                   *)
(* SpecSelect : the server's per-round eligibility sampling.               *)
(* SpecFit    : calls of Server.fit, step by step.                         *)
(* SpecObs    : Server.fit while observers are attached and detached.      *)
(* SpecLog    : Server.fit with a Log attached to server and channel.      *)
(* SpecAgg    : one aggregation over a drawn set of client models.         *)
(* SpecVar    : Server.fit run by the server and clients of a variant.     *)
(* SpecClient : the methods of a FedBN, FedPer or FedDisel client.         *)
(* SpecSplit  : DataSplitter, construction and assign.                     *)
(* SpecLeave  : Server.fit with observers whose callbacks detach.          *)
(***************************************************************************)
EXTENDS Integers, Sequences, FiniteSets, TLC

\* ------------------------------------------------------------------ bounds
MaxSends   == 3   \* messages appended to the mailboxes in one run
MaxTo      == 2   \* length of the receiver list handed to broadcast
MaxClients == 4   \* size of the server's roster
MaxDraws   == 2   \* calls of np.random.choice

PercDen    == 4   \* eligible_perc ranges over the fractions k / PercDen
MaxRounds  == 2   \* rounds a server runs over all its fit calls
FitClients == 3   \* size of the roster of a server that runs fit
AggClients == 2   \* size of the roster of a server that aggregates
MaxElig    == 2   \* length of the eligible list handed to aggregate
MaxEx      == 2   \* examples a client holds
LogClients == 2   \* size of the roster of a server that is logged
MaxEvalEvery == 2 \* eval_every of the Log
MaxCost    == 64  \* logged cost of a round beyond which fit is not called
VarClients == 2   \* size of the roster of a server of a variant
MaxBacklog == 2   \* unread messages to the server beyond which fit is not called
MaxVal     == 1   \* largest parameter value of a directly driven client
MaxRows    == 4   \* training examples of the data set that is split
SplitClients == 3 \* clients the data set is split over

None       == "None"            \* Python's None
ActionType == "__action__"
Mboxes     == {"server", "c1"}
Senders    == {None, "c1"}      \* a sender, or no sender
DataTypes  == {"model", "eval"}
MsgTypes   == DataTypes \cup {ActionType}
Observers  == {"o1", "o2"}
LogObserver == "log"            \* the instance of Log
ClientName == <<"c1", "c2", "c3", "c4", "c5", "c6">>

VARIABLES
    buffer,      \* Channel._buffer : receiver -> list of pending messages
    observers,   \* Channel._observers (ObserverSubject._observers)
    nsend,       \* messages the callers of Spec appended to the mailboxes
    sent,        \* per receiver, entries the callers of Spec appended
    recvd,       \* per receiver, receives of Spec that returned a message
    call,        \* the call in progress: arguments, outcome and effects
    clients,     \* Server.clients (the roster)
    eligible,    \* the value returned by the last get_eligible_clients
    perc,        \* the eligible_perc argument of that call
    rng,         \* draws consumed from the global numpy random source
    rounds,      \* Server.rounds
    model,       \* Server.model.state_dict() : key -> value
    weighted,    \* Server.hyper_params.weighted
    n_examples,  \* client -> Client.n_examples
    testers,     \* the clients whose validate() returns an evaluation
    pc,          \* the statement of Server.fit that runs next
    fit,         \* the fit call in progress: arguments and locals
    notes,       \* the notifications the server emitted during this fit call
    trace,       \* the events of the current round, in order
    agg,         \* the aggregation of the round: what it read, built, raised
    subscribers, \* Server._observers (ObserverSubject._observers)
    faulty,      \* the observers whose callbacks raise
    scall,       \* the last call on the server's observer list, its effects
    log,         \* the Log observer: comm_costs and current_round
    variant,     \* the algorithm whose server and client classes are run
    unhooks,     \* <<o, t>>: the callbacks of observer o detach observer t
    cmodel,      \* the model of the client whose methods are called directly
    ccall,       \* the last call of a method of that client, its effects
    split        \* the DataSplitter and the outcome of its last assign

chanVars == <<buffer, observers, nsend, sent, recvd, call>>
servVars == <<clients, eligible, perc, rng>>
fitVars  == <<rounds, model, weighted, n_examples, testers,
              pc, fit, notes, trace, agg>>
obsVars  == <<subscribers, faulty, scall, log>>
extVars  == <<variant, unhooks, cmodel, ccall, split>>
vars     == <<buffer, observers, nsend, sent, recvd, call,
              clients, eligible, perc, rng,
              rounds, model, weighted, n_examples, testers,
              pc, fit, notes, trace, agg,
              subscribers, faulty, scall, log,
              variant, unhooks, cmodel, ccall, split>>

\* ---------------------------------------------------------------- Message
NoMethod == [callable |-> FALSE, name |-> "", self |-> None]
BoundMethod == [callable |-> TRUE, name |-> "local_train", self |-> "c1"]
NamedMethod == [callable |-> FALSE, name |-> "train", self |-> None]

\* Message(payload, msg_type, sender); id stands for the object's identity.
Message(id, payload, msg_type, sender) ==
    [id |-> id, payload |-> payload, msg_type |-> msg_type, sender |-> sender]

DataPayload == [data |-> "state", method |-> NoMethod, kwargs |-> {}]
ActionPayload(method, kwargs) == [data |-> "", method |-> method, kwargs |-> kwargs]
NoPayload == [data |-> "", method |-> NoMethod, kwargs |-> {}]
NoMsg == Message(0, NoPayload, "", None)

\* ---------------------------------------------------------------- helpers
RECURSIVE SeqsUpTo(_, _)
SeqsUpTo(S, n) ==
    IF n = 0 THEN {<<>>}
    ELSE LET P == SeqsUpTo(S, n - 1)
         IN P \cup {Append(s, x) : s \in {t \in P : Len(t) = n - 1}, x \in S}

Count(s, x) == Cardinality({i \in 1..Len(s) : s[i] = x})

\* list.pop(i), on 1-based positions
PopAt(box, i) == SubSeq(box, 1, i - 1) \o SubSeq(box, i + 1, Len(box))

\* A call on the channel: its arguments (mbox, sender, msg_type, msg, to,
\* items), the mailboxes and observers it found (before, attached), how it
\* ended (status, ret) and what it did on the way (notified, invoked,
\* appended). kind = "none": no call is in progress.
NoCall ==
    [kind |-> "none", mbox |-> None, sender |-> None, msg_type |-> None,
     msg |-> NoMsg, to |-> <<>>, items |-> <<>>,
     before |-> <<>>, attached |-> <<>>,
     status |-> "ok", ret |-> NoMsg,
     notified |-> <<>>, invoked |-> <<>>, appended |-> <<>>]

Range(s) == {s[i] : i \in 1..Len(s)}

\* Position of a client in the roster (its index in Server.clients).
IndexOf(roster, c) == CHOOSE i \in 1..Len(roster) : roster[i] = c

\* ------------------------------------------------------- parameter values
\* A parameter value is a rational <<numerator, denominator>> in lowest
\* terms: the tensors of the code are floats, the model keeps the exact
\* value of each product, quotient and sum.
RECURSIVE GCD(_, _)
GCD(a, b) == IF b = 0 THEN a ELSE GCD(b, a % b)

Abs(n) == IF n < 0 THEN -n ELSE n

Rat(n, d) ==
    LET g == GCD(Abs(n), Abs(d))
        s == IF d < 0 THEN -1 ELSE 1
    IN <<(s * n) \div g, (s * d) \div g>>

Int2Rat(n) == <<n, 1>>

Add(x, y) == Rat(x[1] * y[2] + y[1] * x[2], x[2] * y[2])
Mul(x, y) == Rat(x[1] * y[1], x[2] * y[2])

RECURSIVE Sum(_)
Sum(s) == IF s = <<>> THEN Int2Rat(0) ELSE Add(Head(s), Sum(Tail(s)))

\* The keys a model can have; the test `"num_batches_tracked" in key` of the
\* aggregations holds for the keys of CounterKeys.
ModelKeys   == {"fc.weight", "bn.num_batches_tracked"}
CounterKeys == {"bn.num_batches_tracked"}

\* An OrderedDict without entries, a state dict with every key at `value`.
EmptyDict == [k \in {} |-> Int2Rat(0)]
StateDict(keys, value) == [k \in keys |-> value]

\* No fit call has been made; the locals of a call: n_rounds, eligible_perc
\* (as perc / PercDen), total_rounds, the loop variables round and c,
\* client_evals, for finalize the states its clients took (adopted) and the
\* list of their evaluations (final_evals), and how the call ended.
NoFit ==
    [n_rounds |-> 0, perc |-> PercDen, first |-> 0,
     total_rounds |-> 0, round |-> 0, c |-> 0, client_evals |-> <<>>,
     adopted |-> <<>>, final_evals |-> <<>>, status |-> "none"]

\* An aggregation that has not run.
NoAgg ==
    [status |-> "none", by |-> "", before |-> EmptyDict, eligible |-> <<>>,
     clients_sd |-> <<>>, weights |-> <<>>, result |-> EmptyDict]

\* The algorithms of the repository: the base Server with base clients, and
\* the server / client pairs of FedBN, FedAVGM, FedPer and FedDisel.
Variants == {"base", "fedbn", "fedavgm", "fedper", "feddisel"}

\* A client's model: `ref` tells what self.model is bound to ("none": None,
\* "own": an object of the client, "global": the object the server holds),
\* `sd` is the state of the part the global model maps onto, `private` the
\* state of the part the client keeps to itself.
ClientModel(ref, sd, private) == [ref |-> ref, sd |-> sd, private |-> private]
NoClientModel == ClientModel("none", EmptyDict, EmptyDict)

\* A call of a client's method: the model and the mailboxes it found, how it
\* ended and the message it sent or took. kind = "none": no call was made.
NoCCall ==
    [kind |-> "none", status |-> "ok", before |-> NoClientModel,
     boxes |-> <<>>, msg |-> NoMsg]

\* A tensor of the data set: what it holds ("X": examples, "y": labels) and
\* its number of rows; None is NoTensor.
Tensor(what, rows) == [what |-> what, rows |-> rows]
NoTensor == Tensor(None, 0)

\* FastTensorDataLoader(X, Y, ...); None is NoLoader.
Loader(X, Y) == [loader |-> TRUE, X |-> X, Y |-> Y]
NoLoader == [loader |-> FALSE, X |-> NoTensor, Y |-> NoTensor]

\* A DataSplitter that was not built: the arguments of its constructor, and
\* of its last call of assign the number of clients, how the call ended and
\* the lists of the clients' training and test handles.
NoSplit ==
    [built |-> FALSE, client_split |-> 0, server_test |-> TRUE,
     keep_test |-> TRUE, server_split |-> 0, uniform_test |-> FALSE,
     called |-> FALSE, n_clients |-> 0, status |-> "ok",
     train |-> <<>>, test |-> <<>>]

\* The parts of the state a run of the base algorithm with plain observers
\* does not touch: the variant `v`, the detaching callbacks `u`, no directly
\* driven client, no splitter.
InitExt(v, u) ==
    /\ variant = v
    /\ unhooks = u
    /\ cmodel = NoClientModel
    /\ ccall = NoCCall
    /\ split = NoSplit

\* ---------------------------------------------------------------- Channel
\* The working state of a call: the mailboxes and the effects the call has
\* produced so far (operations invoked, mailboxes appended to).
ChanState(buf) ==
    [buffer |-> buf, invoked |-> <<>>, appended |-> <<>>]

\* The object an action's operation runs on: channel.py:25-28.
ActionTarget(method, mbox) ==
    IF method.callable THEN method.self ELSE mbox

\* Channel._send_action: method(**kwargs) or getattr(mbox, method)(**kwargs).
send_action(st, method, kwargs, mbox) ==
    LET target == ActionTarget(method, mbox)
    IN [st EXCEPT !.invoked = Append(@, [target |-> target,
                                        name   |-> method.name,
                                        kwargs |-> kwargs])]

\* Mutant of Enqueue: the message is put at the head of the mailbox.
EnqueueFront(box, message) == <<message>> \o box

\* self._buffer[mbox].append(message)
Enqueue(box, message) == Append(box, message)

\* Mutant of send: an action message is invoked and buffered as well.
send_buffering_actions(st, message, mbox) ==
    LET kept == [st EXCEPT !.buffer[mbox] = Enqueue(@, message),
                           !.appended = Append(@, mbox)]
    IN IF message.msg_type = ActionType
       THEN send_action(kept, message.payload.method, message.payload.kwargs, mbox)
       ELSE kept

\* Channel.send
send(st, message, mbox) ==
    IF message.msg_type = ActionType
    THEN send_action(st, message.payload.method, message.payload.kwargs, mbox)
    ELSE [st EXCEPT !.buffer[mbox] = Enqueue(@, message),
                    !.appended = Append(@, mbox)]

\* Mutant of broadcast: a receiver listed twice is served once.
RECURSIVE broadcast_distinct(_, _, _)
broadcast_distinct(st, message, to) ==
    IF to = <<>> THEN st
    ELSE IF \E i \in 1..Len(Tail(to)) : Tail(to)[i] = Head(to)
         THEN broadcast_distinct(st, message, Tail(to))
         ELSE broadcast_distinct(send(st, message, Head(to)), message, Tail(to))

\* Channel.broadcast: for client in to: self.send(message, client)
RECURSIVE broadcast(_, _, _)
broadcast(st, message, to) ==
    IF to = <<>> THEN st
    ELSE broadcast(send(st, message, Head(to)), message, Tail(to))

\* Mutant of notify_message_received: only the first observer is notified.
notify_first_observer(obs, message) ==
    [i \in 1..(IF Len(obs) > 0 THEN 1 ELSE 0) |-> [observer |-> obs[i], msg |-> message]]

\* Channel.notify_message_received: one call per attached observer.
notify_message_received(obs, message) ==
    [i \in 1..Len(obs) |-> [observer |-> obs[i], msg |-> message]]

\* Mutant of Matches: the msg_type filter is not tested.
MatchesSenderOnly(msg, sender, msg_type) ==
    sender = None \/ msg.sender = sender

\* The two tests of the scan in Channel.receive (channel.py:85-86).
Matches(msg, sender, msg_type) ==
    /\ (sender = None \/ msg.sender = sender)
    /\ (msg_type = None \/ msg.msg_type = msg_type)

\* Mutant of PopIndex: the oldest message is popped.
PopIndexOldest(box) == 1

\* Position popped by list.pop() without an index: the last one.
PopIndex(box) == Len(box)

\* Mutant of FirstMatch: the scan keeps the last message that matches.
LastMatch(box, sender, msg_type) ==
    LET I == {i \in 1..Len(box) : Matches(box[i], sender, msg_type)}
    IN IF I = {} THEN 0 ELSE CHOOSE i \in I : \A j \in I : i >= j

\* Position at which the enumerate loop of Channel.receive stops; 0 if the
\* loop runs to its end.
FirstMatch(box, sender, msg_type) ==
    LET I == {i \in 1..Len(box) : Matches(box[i], sender, msg_type)}
    IN IF I = {} THEN 0 ELSE CHOOSE i \in I : \A j \in I : i <= j

\* Mutant of Remove: the message is returned but stays in the mailbox.
RemoveNothing(box, i) == box

\* The mailbox after the message at position i was taken out.
Remove(box, i) == PopAt(box, i)

\* Channel.receive: outcome, returned message, mailbox afterwards and the
\* notifications delivered.
receive(buf, obs, mbox, sender, msg_type) ==
    IF sender = None /\ msg_type = None
    THEN IF buf[mbox] = <<>>
         THEN [status |-> "IndexError", ret |-> NoMsg, buffer |-> buf,
               notified |-> <<>>]
         ELSE LET i == PopIndex(buf[mbox])
                  msg == buf[mbox][i]
              IN [status |-> "ok", ret |-> msg,
                  buffer |-> [buf EXCEPT ![mbox] = Remove(@, i)],
                  notified |-> notify_message_received(obs, msg)]
    ELSE LET i == FirstMatch(buf[mbox], sender, msg_type)
         IN IF i = 0
            THEN [status |-> "ValueError", ret |-> NoMsg, buffer |-> buf,
                  notified |-> <<>>]
            ELSE LET msg == buf[mbox][i]
                 IN [status |-> "ok", ret |-> msg,
                     buffer |-> [buf EXCEPT ![mbox] = Remove(@, i)],
                     notified |-> notify_message_received(obs, msg)]

\* ------------------------------------------------------- ObserverSubject
\* Mutant of attach: an observer is appended even if it is in the list.
attach_again(obs, items) == obs \o items

\* The loop of ObserverSubject.attach over the observers handed in.
RECURSIVE attach(_, _)
attach(obs, items) ==
    IF items = <<>> THEN obs
    ELSE attach(IF \E i \in 1..Len(obs) : obs[i] = Head(items)
                THEN obs ELSE Append(obs, Head(items)),
                Tail(items))

\* ObserverSubject.detach: list.remove drops the first occurrence, a missing
\* observer is ignored.
detach(obs, observer) ==
    LET I == {i \in 1..Len(obs) : obs[i] = observer}
    IN IF I = {} THEN obs
       ELSE PopAt(obs, CHOOSE i \in I : \A j \in I : i <= j)

\* ------------------------------------------------------ server observers
\* A call on the server's observer list: attach, detach or one of notify_*.
\* It holds the argument (items, note), the list it found (attached), the
\* observers whose callback was invoked, in order (called), and how the call
\* ended. kind = "none": no call was made yet.
NoSCall ==
    [kind |-> "none", items |-> <<>>, note |-> [ev |-> "", round |-> 0, n |-> 0],
     attached |-> <<>>, called |-> <<>>, status |-> "ok"]

\* Log.__init__: comm_costs = {0: 0}, current_round = 0, history = {} (kept
\* as the set of its keys), eval_every.
NewLog(eval_every) ==
    [comm_costs |-> [r \in {0} |-> 0], current_round |-> 0, history |-> {},
     eval_every |-> eval_every]

\* Message.get_size for a payload that is a model: the size of its pickle,
\* which grows with the number of tensors. (A payload that is None has size
\* 1; the server and its clients send no such message.)
get_size(payload) == 16 + 8 * Cardinality(DOMAIN payload.data)

\* Log.message_received: comm_costs[current_round] += message.get_size()
LogMessageReceived(lg, payload) ==
    [lg EXCEPT !.comm_costs[lg.current_round] = @ + get_size(payload)]

\* The Log after the channel notified message_received for each of the
\* payloads, if the Log is among the channel's observers.
RECURSIVE LogReceived(_, _, _)
LogReceived(lg, obs, payloads) ==
    IF payloads = <<>> \/ LogObserver \notin Range(obs) THEN lg
    ELSE LogReceived(LogMessageReceived(lg, Head(payloads)), obs, Tail(payloads))

\* The callbacks of Log for the server's notifications: start_round opens
\* comm_costs[round] and moves current_round; end_round evaluates the rounds
\* that are multiples of eval_every and reads comm_costs[round]; finished
\* reads history[current_round]. A key that is missing raises KeyError.
LogCallback(lg, note) ==
    IF note.ev = "start_round"
    THEN [status |-> "ok",
          log |-> [lg EXCEPT
                     !.comm_costs = [r \in DOMAIN @ \cup {note.round} |->
                                        IF r = note.round THEN 0 ELSE @[r]],
                     !.current_round = note.round]]
    ELSE IF note.ev = "end_round" /\ note.round % lg.eval_every = 0
    THEN IF note.round \in DOMAIN lg.comm_costs
         THEN [status |-> "ok", log |-> [lg EXCEPT !.history = @ \cup {note.round}]]
         ELSE [status |-> "KeyError",
               log |-> [lg EXCEPT !.history = @ \cup {note.round}]]
    ELSE IF note.ev = "finished" /\ lg.current_round \notin lg.history
    THEN [status |-> "KeyError", log |-> lg]
    ELSE [status |-> "ok", log |-> lg]

\* The detach calls made by a callback: each observer of `targets` is
\* removed from the list (ObserverSubject.detach).
RECURSIVE Unhook(_, _)
Unhook(obs, targets) ==
    IF targets = {} THEN obs
    ELSE LET t == CHOOSE x \in targets : TRUE
         IN Unhook(detach(obs, t), targets \ {t})

\* `for observer in self._observers: observer.<callback>(...)` from the
\* i-th entry on. The list iterator keeps an index into the live list: it
\* yields self._observers[i] while i is below the current length, so the
\* entries behind a removed one move up by one position. The callback of an
\* observer of `bad` raises, as does a callback of the Log that misses a
\* key; the exception leaves the loop. A callback of o that returns has
\* detached every t with <<o, t>> in un.
RECURSIVE notify_from(_, _, _, _, _, _)
notify_from(obs, i, un, bad, lg, note) ==
    IF i > Len(obs)
    THEN [status |-> "ok", called |-> <<>>, log |-> lg, observers |-> obs]
    ELSE LET o  == obs[i]
             cb == IF o = LogObserver THEN LogCallback(lg, note)
                   ELSE IF o \in bad
                        THEN [status |-> "Exception", log |-> lg]
                        ELSE [status |-> "ok", log |-> lg]
         IN IF cb.status # "ok"
            THEN [status |-> cb.status, called |-> <<o>>, log |-> cb.log,
                  observers |-> obs]
            ELSE LET left == Unhook(obs, {q[2] : q \in {u \in un : u[1] = o}})
                     rest == notify_from(left, i + 1, un, bad, cb.log, note)
                 IN [rest EXCEPT !.called = <<o>> \o @]

\* Server.notify_start_round, notify_selected_clients, notify_end_round and
\* notify_finalize (server.py:194-264): the loop over self._observers from
\* its first entry. It yields how the call ended, the observers whose
\* callback was invoked, the Log and the observer list it leaves.
notify(obs, un, bad, lg, note) == notify_from(obs, 1, un, bad, lg, note)

\* The record of a notify_* call.
Notified(obs, out, note) ==
    [NoSCall EXCEPT !.kind = "notify", !.note = note, !.attached = obs,
                    !.called = out.called, !.status = out.status]

\* --------------------------------------------------- the channel's callers
\* The payloads the callers put into a message of the given type: for an
\* action a bound method without arguments, as in Server._local_train, or a
\* method name with keyword arguments, as in the docstring of Channel.send.
Payloads(msg_type) ==
    IF msg_type = ActionType
    THEN {ActionPayload(BoundMethod, {}),
          ActionPayload(NamedMethod, {<<"epochs", 3>>})}
    ELSE {DataPayload}

\* The senders the callers name: actions come from the server, a model from
\* client c1, any other message is built without a sender (the default of
\* Message).
MsgSenders(msg_type) ==
    IF msg_type = ActionType THEN {"server"}
    ELSE IF msg_type = "model" THEN {"c1"} ELSE {None}

\* The receiver lists handed to broadcast, the observer lists handed to
\* attach (attach(None) and attach(observer) are the lists of length 0, 1).
ToLists     == SeqsUpTo(Mboxes, MaxTo)
AttachLists == SeqsUpTo(Observers, 2)

Idle == call.kind = "none"

\* Channel.__init__ and ObserverSubject.__init__
InitChannel ==
    /\ buffer = [m \in Mboxes |-> <<>>]
    /\ observers = <<>>
    /\ nsend = 0
    /\ sent = [m \in Mboxes |-> 0]
    /\ recvd = [m \in Mboxes |-> 0]
    /\ call = NoCall

\* Server.__init__ with a roster of n clients
InitServer(n) ==
    /\ clients = SubSeq(ClientName, 1, n)
    /\ eligible = <<>>
    /\ perc = PercDen
    /\ rng = 0
    /\ rounds = 0
    /\ pc = "idle"
    /\ fit = NoFit
    /\ notes = <<>>
    /\ trace = <<>>
    /\ agg = NoAgg

\* The parties a driver builds: a global model with the given keys, all 0,
\* the weighted hyper-parameter, the clients' example counts and the
\* clients that hold a local test set.
InitParties(keys, w, ex, t) ==
    /\ model = StateDict(keys, Int2Rat(0))
    /\ weighted = w
    /\ n_examples = ex
    /\ testers = t

\* The server's observer list as the driver set it up, the observers that
\* raise and the Log the driver built.
InitObservers(subs, bad, lg) ==
    /\ subscribers = subs
    /\ faulty = bad
    /\ scall = NoSCall
    /\ log = lg

Init ==
    /\ InitChannel
    /\ InitServer(1)
    /\ InitParties({"fc.weight"}, FALSE, [c \in {"c1"} |-> 1], {})
    /\ InitObservers(<<>>, {}, NewLog(1))
    /\ InitExt("base", {})

\* channel.send(message, mbox)
Send ==
    /\ Idle
    /\ \E mbox \in Mboxes, msg_type \in MsgTypes :
       \E sender \in MsgSenders(msg_type), payload \in Payloads(msg_type) :
        LET message == Message(nsend + 1, payload, msg_type, sender)
            st == send(ChanState(buffer), message, mbox)
        IN /\ nsend + Len(st.appended) <= MaxSends
           /\ buffer' = st.buffer
           /\ nsend' = nsend + Len(st.appended)
           /\ sent' = [m \in Mboxes |-> sent[m] + Count(st.appended, m)]
           /\ call' = [NoCall EXCEPT !.kind = "send", !.mbox = mbox,
                                     !.msg = message,
                                     !.before = buffer,
                                     !.attached = observers,
                                     !.invoked = st.invoked,
                                     !.appended = st.appended]
           /\ UNCHANGED <<observers, recvd>>
           /\ UNCHANGED <<servVars, fitVars, obsVars>>
    /\ UNCHANGED extVars

\* channel.broadcast(message, to)
Broadcast ==
    /\ Idle
    /\ \E to \in ToLists, msg_type \in MsgTypes :
       \E sender \in MsgSenders(msg_type), payload \in Payloads(msg_type) :
        LET message == Message(nsend + 1, payload, msg_type, sender)
            st == broadcast(ChanState(buffer), message, to)
        IN /\ nsend + Len(st.appended) <= MaxSends
           /\ buffer' = st.buffer
           /\ nsend' = nsend + Len(st.appended)
           /\ sent' = [m \in Mboxes |-> sent[m] + Count(st.appended, m)]
           /\ call' = [NoCall EXCEPT !.kind = "broadcast", !.to = to,
                                     !.msg = message,
                                     !.before = buffer,
                                     !.attached = observers,
                                     !.invoked = st.invoked,
                                     !.appended = st.appended]
           /\ UNCHANGED <<observers, recvd>>
           /\ UNCHANGED <<servVars, fitVars, obsVars>>
    /\ UNCHANGED extVars

\* channel.receive(mbox, sender, msg_type)
Receive ==
    /\ Idle
    /\ \E mbox \in Mboxes, sender \in Senders, msg_type \in DataTypes \cup {None} :
        LET r == receive(buffer, observers, mbox, sender, msg_type)
        IN /\ buffer' = r.buffer
           /\ recvd' = IF r.status = "ok"
                       THEN [recvd EXCEPT ![mbox] = @ + 1] ELSE recvd
           /\ call' = [NoCall EXCEPT !.kind = "receive", !.mbox = mbox,
                                     !.sender = sender, !.msg_type = msg_type,
                                     !.before = buffer,
                                     !.attached = observers,
                                     !.status = r.status, !.ret = r.ret,
                                     !.notified = r.notified]
           /\ UNCHANGED <<observers, nsend, sent>>
           /\ UNCHANGED <<servVars, fitVars, obsVars>>
    /\ UNCHANGED extVars

\* channel.attach(None), channel.attach(observer), channel.attach([...])
Attach ==
    /\ Idle
    /\ \E items \in AttachLists :
        /\ observers' = attach(observers, items)
        /\ call' = [NoCall EXCEPT !.kind = "attach", !.items = items,
                                  !.before = buffer,
                                  !.attached = observers]
        /\ UNCHANGED <<buffer, nsend, sent, recvd>>
        /\ UNCHANGED <<servVars, fitVars, obsVars>>
    /\ UNCHANGED extVars

\* channel.detach(observer)
Detach ==
    /\ Idle
    /\ \E observer \in Observers :
        /\ observers' = detach(observers, observer)
        /\ call' = [NoCall EXCEPT !.kind = "detach", !.items = <<observer>>,
                                  !.before = buffer,
                                  !.attached = observers]
        /\ UNCHANGED <<buffer, nsend, sent, recvd>>
        /\ UNCHANGED <<servVars, fitVars, obsVars>>
    /\ UNCHANGED extVars

\* The call returns (or raises) to its caller.
Return ==
    /\ ~Idle
    /\ call' = NoCall
    /\ UNCHANGED <<buffer, observers, nsend, sent, recvd>>
    /\ UNCHANGED <<servVars, fitVars, obsVars>>
    /\ UNCHANGED extVars

Next == Send \/ Broadcast \/ Receive \/ Attach \/ Detach \/ Return

Spec == Init /\ [][Next]_vars

\* --------------------------------------------------- the server's sampling
\* np.random.choice(a, size): size independent draws from a.
RandomChoice(a, size) ==
    {[i \in 1..size |-> a[f[i]]] : f \in [1..size -> 1..Len(a)]}

\* Mutant of get_eligible_clients: the sample size is rounded up.
get_eligible_rounded_up(roster, k) ==
    IF k = PercDen
    THEN {roster}
    ELSE RandomChoice(roster, (Len(roster) * k + PercDen - 1) \div PercDen)

\* Mutant of get_eligible_clients: the roster is sampled for every fraction.
get_eligible_always_sampled(roster, k) ==
    RandomChoice(roster, (Len(roster) * k) \div PercDen)

\* Server.get_eligible_clients(k / PercDen): the values it can return.
\* int(n_clients * eligible_perc) truncates; for the non-negative fractions
\* used here that is the integer quotient.
get_eligible_clients(roster, k) ==
    IF k = PercDen
    THEN {roster}
    ELSE RandomChoice(roster, (Len(roster) * k) \div PercDen)

\* One call of get_eligible_clients, as made once per round by Server.fit.
GetEligibleClients ==
    \E k \in 0..PercDen :
        /\ k = PercDen \/ rng < MaxDraws
        /\ eligible' \in get_eligible_clients(clients, k)
        /\ perc' = k
        /\ rng' = IF k = PercDen THEN rng ELSE rng + 1
        /\ UNCHANGED clients
        /\ UNCHANGED chanVars
        /\ UNCHANGED fitVars
        /\ UNCHANGED obsVars
    /\ UNCHANGED extVars

InitSelect ==
    /\ InitChannel
    /\ \E n \in 1..MaxClients : InitServer(n)
    /\ InitParties({"fc.weight"}, FALSE, [c \in Range(clients) |-> 1], {})
    /\ InitObservers(<<>>, {}, NewLog(1))
    /\ InitExt("base", {})

NextSelect == GetEligibleClients

SpecSelect == InitSelect /\ [][NextSelect]_vars

\* ------------------------------------------------------------ aggregation
\* The payload of Message(model, "model", sender).
ModelPayload(sd) == [data |-> sd, method |-> NoMethod, kwargs |-> {}]

\* Mutant of _get_client_models: a client without a message is passed over.
RECURSIVE get_client_models_skipping(_, _, _)
get_client_models_skipping(buf, obs, elig) ==
    IF elig = <<>>
    THEN [status |-> "ok", buffer |-> buf, models |-> <<>>, received |-> <<>>]
    ELSE LET r == receive(buf, obs, "server", Head(elig), "model")
             rest == get_client_models_skipping(r.buffer, obs, Tail(elig))
         IN IF r.status # "ok" THEN rest
            ELSE [status   |-> rest.status,
                  buffer   |-> rest.buffer,
                  models   |-> <<r.ret.payload.data>> \o rest.models,
                  received |-> <<Head(elig)>> \o rest.received]

\* Server._get_client_models: one receive from the server's mailbox per entry
\* of eligible, filtered by that client as sender and by the type "model".
\* A receive that raises ends the comprehension.
RECURSIVE get_client_models(_, _, _)
get_client_models(buf, obs, elig) ==
    IF elig = <<>>
    THEN [status |-> "ok", buffer |-> buf, models |-> <<>>, received |-> <<>>]
    ELSE LET r == receive(buf, obs, "server", Head(elig), "model")
         IN IF r.status # "ok"
            THEN [status |-> r.status, buffer |-> r.buffer, models |-> <<>>,
                  received |-> <<>>]
            ELSE LET rest == get_client_models(r.buffer, obs, Tail(elig))
                 IN [status   |-> rest.status,
                     buffer   |-> rest.buffer,
                     models   |-> <<r.ret.payload.data>> \o rest.models,
                     received |-> <<Head(elig)>> \o rest.received]

\* Mutant of get_client_weights: the clients are weighted by their example
\* counts whatever hyper_params.weighted says.
get_client_weights_by_examples(elig, w, ex) ==
    LET tot_ex == Sum([i \in 1..Len(elig) |-> Int2Rat(ex[elig[i]])])[1]
    IN [status  |-> "ok",
        weights |-> [i \in 1..Len(elig) |->
                        IF tot_ex = 0 THEN Int2Rat(0) ELSE Rat(ex[elig[i]], tot_ex)]]

\* Server._get_client_weights: num_ex[i] / tot_ex when weighted, else
\* 1. / len(eligible); a division by zero raises ZeroDivisionError.
get_client_weights(elig, w, ex) ==
    IF w
    THEN LET tot_ex == Sum([i \in 1..Len(elig) |-> Int2Rat(ex[elig[i]])])[1]
         IN IF Len(elig) > 0 /\ tot_ex = 0
            THEN [status |-> "ZeroDivisionError", weights |-> <<>>]
            ELSE [status  |-> "ok",
                  weights |-> [i \in 1..Len(elig) |-> Rat(ex[elig[i]], tot_ex)]]
    ELSE IF Len(elig) = 0
         THEN [status |-> "ZeroDivisionError", weights |-> <<>>]
         ELSE [status  |-> "ok",
               weights |-> [i \in 1..Len(elig) |-> Rat(1, Len(elig))]]

\* The accumulation loop of Server.aggregate (server.py:182-191): a counter
\* key is skipped, every other key gets the sum of weights[i] * client_sd[key]
\* over the client models; without client models no key is entered.
average(sd, clients_sd, weights) ==
    [key \in {k \in DOMAIN sd : k \notin CounterKeys /\ clients_sd # <<>>} |->
        Sum([i \in 1..Len(clients_sd) |-> Mul(weights[i], clients_sd[i][key])])]

\* Mutant of load_state_dict: keys missing from the state dict are ignored
\* (strict=False).
load_state_dict_lenient(own, sd) ==
    {[status |-> "ok",
      model  |-> [k \in DOMAIN own |-> IF k \in DOMAIN sd THEN sd[k] ELSE own[k]]]}

\* torch's Module.load_state_dict(sd), strict: the outcomes it can have on a
\* model whose state dict is `own`. The values of the keys present are
\* copied; then a key of sd the model lacks, or a key of the model sd lacks,
\* raises RuntimeError. A counter key that is missing is first restored by
\* the norm layer that owns it, since an OrderedDict built by hand carries
\* no version metadata: with the layer's current value or with 0, depending
\* on the torch release; a counter buffer of any other module is reported
\* missing.
load_state_dict(own, sd) ==
    LET missing    == DOMAIN own \ DOMAIN sd
        unexpected == DOMAIN sd \ DOMAIN own
        loaded == [k \in DOMAIN own |-> IF k \in DOMAIN sd THEN sd[k] ELSE own[k]]
        zeroed == [k \in DOMAIN own |-> IF k \in DOMAIN sd THEN sd[k] ELSE Int2Rat(0)]
    IN IF unexpected # {} \/ missing \ CounterKeys # {}
       THEN {[status |-> "RuntimeError", model |-> loaded]}
       ELSE IF missing = {}
       THEN {[status |-> "ok", model |-> loaded]}
       ELSE {[status |-> "ok", model |-> loaded],
             [status |-> "ok", model |-> zeroed],
             [status |-> "RuntimeError", model |-> loaded]}

\* Server.aggregate: the outcomes it can have. Each holds how it ended, the
\* mailboxes and the global model it leaves, the client models and weights
\* it read and the avg_model_sd it built (result).
aggregate(buf, obs, own, elig, w, ex) ==
    LET got == get_client_models(buf, obs, elig)
        ws  == get_client_weights(elig, w, ex)
        avg == average(own, got.models, ws.weights)
        out(status, sd, weights, result) ==
            [status |-> status, buffer |-> got.buffer, model |-> sd,
             before |-> own, eligible |-> elig, received |-> got.received,
             clients_sd |-> got.models, weights |-> weights, result |-> result]
    IN IF got.status # "ok"
       THEN {out(got.status, own, <<>>, EmptyDict)}
       ELSE IF ws.status # "ok"
       THEN {out(ws.status, own, <<>>, EmptyDict)}
       ELSE {out(l.status, l.model, ws.weights, avg) : l \in load_state_dict(own, avg)}

\* ------------------------------------------------- the variants' servers
\* The class of the server of an algorithm and the methods its body defines
\* next to those it inherits from Server: FedBNServer defines aggregate,
\* FedAVGMServer defines __init__ and _aggregate, FedPerServer and
\* FedDiselServer define __init__.
ServerClass(v) ==
    CASE v = "fedbn"    -> "FedBNServer"
      [] v = "fedavgm"  -> "FedAVGMServer"
      [] v = "fedper"   -> "FedPerServer"
      [] v = "feddisel" -> "FedDiselServer"
      [] OTHER          -> "Server"

Defines(class) ==
    CASE class = "FedBNServer"   -> {"aggregate"}
      [] class = "FedAVGMServer" -> {"__init__", "_aggregate"}
      [] class = "Server"        -> {"__init__", "fit", "finalize", "aggregate"}
      [] OTHER                   -> {"__init__"}

\* Attribute lookup of self.<name> on a server of algorithm v: the method of
\* its own class if the class defines the name, else the method of Server.
Resolve(v, name) ==
    IF name \in Defines(ServerClass(v)) THEN ServerClass(v) ELSE "Server"

\* The state of a client's model after its training of this round: the
\* state it sent last, a copy of which lies in the server's mailbox.
SentBy(box, c) ==
    LET I == {i \in 1..Len(box) : box[i].sender = c /\ box[i].msg_type = "model"}
    IN box[CHOOSE i \in I : \A j \in I : i >= j].payload.data

\* FedBNServer.aggregate (fedbn.py:26-46): the client models are asked from
\* the clients, eligible[i].send().state_dict(), not received from the
\* channel; a counter key is copied from the first client, any other key is
\* the sum of weight * client_sd[key] divided by the sum of the weights. The
\* outcome of send() depends on the Client class at hand: it returns the
\* client's model, or the call raises AttributeError. Without clients the
\* first key fails: clients_sd[0] (IndexError) or avg_model_sd[key] /= den
\* (KeyError).
fedbn_aggregate(buf, own, elig, w, ex) ==
    LET out(status, sd, sds, weights, result) ==
            [status |-> status, buffer |-> buf, model |-> sd,
             before |-> own, eligible |-> elig, received |-> <<>>,
             clients_sd |-> sds, weights |-> weights, result |-> result]
        asked == \A i \in 1..Len(elig) :
                     \E j \in 1..Len(buf["server"]) :
                         /\ buf["server"][j].sender = elig[i]
                         /\ buf["server"][j].msg_type = "model"
        sds == [i \in 1..Len(elig) |-> SentBy(buf["server"], elig[i])]
        den == Sum([i \in 1..Len(elig) |-> Int2Rat(IF w THEN ex[elig[i]] ELSE 1)])[1]
        ws  == [i \in 1..Len(elig) |-> Rat(IF w THEN ex[elig[i]] ELSE 1, den)]
        avg == [key \in DOMAIN own |->
                   IF key \in CounterKeys THEN sds[1][key]
                   ELSE Sum([i \in 1..Len(elig) |-> Mul(ws[i], sds[i][key])])]
    IN IF elig = <<>>
       THEN {out(IF key \in CounterKeys THEN "IndexError" ELSE "KeyError",
                 own, <<>>, <<>>, EmptyDict) : key \in DOMAIN own}
       ELSE {out("AttributeError", own, <<>>, <<>>, EmptyDict)}
            \cup (IF asked
                  THEN {out(l.status, l.model, sds, ws, avg) :
                            l \in load_state_dict(own, avg)}
                  ELSE {})

\* self.aggregate(eligible) on a server of algorithm v (server.py:101): the
\* method the lookup finds and the outcomes of running it.
server_aggregate(v, buf, obs, own, elig, w, ex) ==
    {[by |-> Resolve(v, "aggregate") \o ".aggregate", out |-> a] :
        a \in IF Resolve(v, "aggregate") = "FedBNServer"
              THEN fedbn_aggregate(buf, own, elig, w, ex)
              ELSE aggregate(buf, obs, own, elig, w, ex)}

\* ------------------------------------------------------------ Server.fit
\* Mutant of Note: the observer is told the loop variable `round` instead
\* of round + 1.
NoteZeroBased(ev, round, n) ==
    [ev |-> ev, round |-> IF ev = "finished" THEN 0 ELSE round - 1, n |-> n]

\* A notification the server emits through notify_*: the round it names (0
\* for finished) and the length of the list handed over (-1 for None).
Note(ev, round, n) == [ev |-> ev, round |-> round, n |-> n]

\* An event of a round: a notification, the global model placed in a
\* client's mailbox ("model_in"), the train action sent to a client
\* ("train"), a client taking the global model from its mailbox ("adopt"),
\* the server's receive of a client's model ("receive").
Event(ev, round, who) == [ev |-> ev, round |-> round, who |-> who]

\* The events of a list of clients, one per entry.
Events(ev, round, whos) == [i \in 1..Len(whos) |-> Event(ev, round, whos[i])]

\* Client local training on the received state dict. The training loop is
\* opaque; here a parameter becomes the round number and a batch counter
\* advances by one.
trained(sd, round) ==
    [k \in DOMAIN sd |-> IF k \in CounterKeys
                         THEN Add(sd[k], Int2Rat(1))
                         ELSE Int2Rat(round)]

\* Client.local_train, invoked by the action message: _receive_model takes
\* the global model from the client's mailbox, the model is trained and
\* _send_model sends it to the server. `got` holds the payload received.
local_train(buf, obs, client, client_index, round) ==
    LET r == receive(buf, obs, client, "server", "model")
    IN IF r.status # "ok"
       THEN [status |-> r.status, buffer |-> r.buffer, got |-> <<>>]
       ELSE LET sd == trained(r.ret.payload.data, round)
                st == send(ChanState(r.buffer),
                           Message(client_index + 1, ModelPayload(sd), "model", client),
                           "server")
            IN [status |-> "ok", buffer |-> st.buffer, got |-> <<r.ret.payload>>]

\* The loop of Server.finalize over the roster: client._receive_model() takes
\* the final model from each client's mailbox. `received` holds the clients
\* that took a message, `got` the payloads they took, in order.
RECURSIVE receive_models(_, _, _)
receive_models(buf, obs, roster) ==
    IF roster = <<>>
    THEN [status |-> "ok", buffer |-> buf, received |-> <<>>, got |-> <<>>]
    ELSE LET r == receive(buf, obs, Head(roster), "server", "model")
         IN IF r.status # "ok"
            THEN [status |-> r.status, buffer |-> r.buffer,
                  received |-> <<>>, got |-> <<>>]
            ELSE LET rest == receive_models(r.buffer, obs, Tail(roster))
                 IN [rest EXCEPT !.received = <<Head(roster)>> \o @,
                                 !.got = <<r.ret.payload>> \o @]

\* Mutant of validate: a client without metrics is collected as well.
validate_all(roster, t) == roster

\* [client.validate() for client in roster], without the entries that are
\* None.
validate(roster, t) ==
    SelectSeq(roster, LAMBDA c : c \in t)

\* Mutant of FinalReceivers: finalize addresses the clients of the last round.
LastEligible(roster, elig) == elig

\* The clients Server.finalize addresses: self.clients.
FinalReceivers(roster, elig) == roster

\* The payloads of the models in a list of state dicts.
ModelPayloads(sds) == [i \in 1..Len(sds) |-> ModelPayload(sds[i])]

\* fit(n_rounds, eligible_perc) is called: server.py:83-88. The records of
\* the previous call (its locals, the notifications it emitted, its last
\* aggregation) are dropped. The driver makes no further call once the Log
\* holds a cost above MaxCost or more than MaxBacklog messages lie unread in
\* the server's mailbox.
FitCall ==
    /\ pc = "idle"
    /\ \A r \in DOMAIN log.comm_costs : log.comm_costs[r] <= MaxCost
    /\ Len(buffer["server"]) <= MaxBacklog
    /\ \E n \in 0..MaxRounds, k \in 0..PercDen :
        /\ rounds + n <= MaxRounds
        /\ k = PercDen \/ rng + n <= MaxDraws
        /\ fit' = [NoFit EXCEPT !.n_rounds = n, !.perc = k, !.first = rounds,
                                !.total_rounds = rounds + n,
                                !.round = rounds, !.status = "running"]
        /\ perc' = k
        /\ pc' = IF n = 0 THEN "finalize" ELSE "start_round"
    /\ eligible' = <<>>
    /\ notes' = <<>>
    /\ trace' = <<>>
    /\ agg' = NoAgg
    /\ UNCHANGED <<chanVars, clients, rng, rounds, model, weighted, n_examples,
                   testers, obsVars>>
    /\ UNCHANGED extVars

\* self.notify_start_round(round + 1, self.model): server.py:89
StartRound ==
    /\ pc = "start_round"
    /\ LET note == Note("start_round", fit.round + 1, 0)
           out  == notify(subscribers, unhooks, faulty, log, note)
       IN /\ notes' = Append(notes, note)
          /\ scall' = Notified(subscribers, out, note)
          /\ subscribers' = out.observers
          /\ log' = out.log
          /\ IF out.status = "ok"
             THEN /\ fit' = [fit EXCEPT !.client_evals = <<>>, !.c = 0]
                  /\ pc' = "select"
             ELSE /\ fit' = [fit EXCEPT !.client_evals = <<>>, !.c = 0,
                                        !.status = out.status]
                  /\ pc' = "idle"
    /\ trace' = <<Event("start_round", fit.round + 1, None)>>
    /\ agg' = NoAgg
    /\ UNCHANGED <<chanVars, servVars, rounds, model, weighted, n_examples,
                   testers, faulty>>
    /\ UNCHANGED extVars

\* eligible = self.get_eligible_clients(eligible_perc);
\* self.notify_selected_clients(round + 1, eligible): server.py:90-91
SelectClients ==
    /\ pc = "select"
    /\ eligible' \in get_eligible_clients(clients, fit.perc)
    /\ rng' = IF fit.perc = PercDen THEN rng ELSE rng + 1
    /\ LET note == Note("selected_clients", fit.round + 1, Len(eligible'))
           out  == notify(subscribers, unhooks, faulty, log, note)
       IN /\ notes' = Append(notes, note)
          /\ scall' = Notified(subscribers, out, note)
          /\ subscribers' = out.observers
          /\ log' = out.log
          /\ IF out.status = "ok"
             THEN pc' = "broadcast" /\ UNCHANGED fit
             ELSE pc' = "idle" /\ fit' = [fit EXCEPT !.status = out.status]
    /\ trace' = Append(trace, Event("selected_clients", fit.round + 1, None))
    /\ UNCHANGED <<chanVars, clients, perc, rounds, model, weighted,
                   n_examples, testers, agg, faulty>>
    /\ UNCHANGED extVars

\* self._broadcast_model(eligible): server.py:92
BroadcastModel ==
    /\ pc = "broadcast"
    /\ LET st == broadcast(ChanState(buffer),
                           Message(0, ModelPayload(model), "model", "server"),
                           eligible)
       IN /\ buffer' = st.buffer
          /\ trace' = trace \o Events("model_in", fit.round + 1, st.appended)
    /\ fit' = [fit EXCEPT !.c = 1]
    /\ pc' = IF eligible = <<>> THEN "aggregate" ELSE "train"
    /\ UNCHANGED <<observers, nsend, sent, recvd, call, servVars, rounds,
                   model, weighted, n_examples, testers, notes, agg, obsVars>>
    /\ UNCHANGED extVars

\* Mutant of Train: the client trains the model object it received, which
\* is the server's.
TrainInPlace ==
    /\ pc = "train"
    /\ LET client == eligible[fit.c]
           action == Message(0, ActionPayload([callable |-> TRUE,
                                               name |-> "local_train",
                                               self |-> client], {}),
                             ActionType, "server")
           st  == send(ChanState(buffer), action, client)
           ran == local_train(st.buffer, observers, client,
                              IndexOf(clients, client) - 1, fit.round + 1)
       IN /\ buffer' = ran.buffer
          /\ log' = LogReceived(log, observers, ran.got)
          /\ trace' = trace
                      \o Events("train", fit.round + 1,
                                [i \in 1..Len(st.invoked) |-> st.invoked[i].target])
                      \o Events("adopt", fit.round + 1,
                                [i \in 1..Len(ran.got) |-> client])
          /\ IF ran.status # "ok"
             THEN /\ fit' = [fit EXCEPT !.status = ran.status]
                  /\ pc' = "idle"
             ELSE /\ fit' = [fit EXCEPT !.c = @ + 1,
                                        !.client_evals = @ \o validate(<<client>>, testers)]
                  /\ pc' = IF fit.c = Len(eligible) THEN "aggregate" ELSE "train"
    /\ model' = trained(model, fit.round + 1)
    /\ UNCHANGED <<observers, nsend, sent, recvd, call, servVars, rounds,
                   weighted, n_examples, testers, notes, agg,
                   subscribers, faulty, scall>>
    /\ UNCHANGED extVars

\* One pass of the loop over eligible: the train action is sent, which runs
\* client.local_train(), and client.validate() is collected:
\* server.py:94-98.
Train ==
    /\ pc = "train"
    /\ LET client == eligible[fit.c]
           action == Message(0, ActionPayload([callable |-> TRUE,
                                               name |-> "local_train",
                                               self |-> client], {}),
                             ActionType, "server")
           st  == send(ChanState(buffer), action, client)
           ran == local_train(st.buffer, observers, client,
                              IndexOf(clients, client) - 1, fit.round + 1)
       IN /\ buffer' = ran.buffer
          /\ log' = LogReceived(log, observers, ran.got)
          /\ trace' = trace
                      \o Events("train", fit.round + 1,
                                [i \in 1..Len(st.invoked) |-> st.invoked[i].target])
                      \o Events("adopt", fit.round + 1,
                                [i \in 1..Len(ran.got) |-> client])
          /\ IF ran.status # "ok"
             THEN /\ fit' = [fit EXCEPT !.status = ran.status]
                  /\ pc' = "idle"
             ELSE /\ fit' = [fit EXCEPT !.c = @ + 1,
                                        !.client_evals = @ \o validate(<<client>>, testers)]
                  /\ pc' = IF fit.c = Len(eligible) THEN "aggregate" ELSE "train"
    /\ UNCHANGED <<observers, nsend, sent, recvd, call, servVars, rounds,
                   model, weighted, n_examples, testers, notes, agg,
                   subscribers, faulty, scall>>
    /\ UNCHANGED extVars

\* self.aggregate(eligible): server.py:101
Aggregate ==
    /\ pc = "aggregate"
    /\ \E run \in server_aggregate(variant, buffer, observers, model, eligible,
                                    weighted, n_examples) :
       LET a == run.out IN
        /\ buffer' = a.buffer
        /\ model' = a.model
        /\ log' = LogReceived(log, observers,
                              ModelPayloads([i \in 1..Len(a.received) |-> a.clients_sd[i]]))
        /\ agg' = [status |-> a.status, by |-> run.by, before |-> a.before,
                   eligible |-> a.eligible, clients_sd |-> a.clients_sd,
                   weights |-> a.weights, result |-> a.result]
        /\ trace' = trace \o Events("receive", fit.round + 1, a.received)
        /\ IF a.status = "ok"
           THEN pc' = "end_round" /\ UNCHANGED fit
           ELSE pc' = "idle" /\ fit' = [fit EXCEPT !.status = a.status]
    /\ UNCHANGED <<observers, nsend, sent, recvd, call, servVars, rounds,
                   weighted, n_examples, testers, notes,
                   subscribers, faulty, scall>>
    /\ UNCHANGED extVars

\* Mutant of EndRound: self.rounds += 1 is left out.
EndRoundKeepsCounter ==
    /\ pc = "end_round"
    /\ LET note == Note("end_round", fit.round + 1, Len(fit.client_evals))
           out  == notify(subscribers, unhooks, faulty, log, note)
       IN /\ notes' = Append(notes, note)
          /\ scall' = Notified(subscribers, out, note)
          /\ subscribers' = out.observers
          /\ log' = out.log
          /\ IF out.status = "ok"
             THEN /\ fit' = [fit EXCEPT !.round = @ + 1]
                  /\ pc' = IF fit.round + 1 = fit.total_rounds
                           THEN "finalize" ELSE "start_round"
             ELSE /\ fit' = [fit EXCEPT !.status = out.status]
                  /\ pc' = "idle"
    /\ trace' = Append(trace, Event("end_round", fit.round + 1, None))
    /\ UNCHANGED <<chanVars, servVars, rounds, model, weighted, n_examples,
                   testers, agg, faulty>>
    /\ UNCHANGED extVars

\* self.notify_end_round(round + 1, ...); self.rounds += 1: server.py:102-103
EndRound ==
    /\ pc = "end_round"
    /\ LET note == Note("end_round", fit.round + 1, Len(fit.client_evals))
           out  == notify(subscribers, unhooks, faulty, log, note)
       IN /\ notes' = Append(notes, note)
          /\ scall' = Notified(subscribers, out, note)
          /\ subscribers' = out.observers
          /\ log' = out.log
          /\ IF out.status = "ok"
             THEN /\ rounds' = rounds + 1
                  /\ fit' = [fit EXCEPT !.round = @ + 1]
                  /\ pc' = IF fit.round + 1 = fit.total_rounds
                           THEN "finalize" ELSE "start_round"
             ELSE /\ rounds' = rounds
                  /\ fit' = [fit EXCEPT !.status = out.status]
                  /\ pc' = "idle"
    /\ trace' = Append(trace, Event("end_round", fit.round + 1, None))
    /\ UNCHANGED <<chanVars, servVars, model, weighted, n_examples, testers,
                   agg, faulty>>
    /\ UNCHANGED extVars

\* self.finalize(): server.py:107, 109-119. The final model is broadcast to
\* the roster, every client takes it, the evaluations are collected and
\* finished is notified with the list, or with None when the first entry is
\* None; an empty list has no first entry.
Finalize ==
    /\ pc = "finalize"
    /\ LET to    == FinalReceivers(clients, eligible)
           st    == broadcast(ChanState(buffer),
                              Message(0, ModelPayload(model), "model", "server"),
                              to)
           got   == receive_models(st.buffer, observers, to)
           evals == [i \in 1..Len(to) |-> IF to[i] \in testers THEN to[i] ELSE None]
           note  == Note("finished", 0,
                         IF evals # <<>> /\ evals[1] # None THEN Len(evals) ELSE -1)
           heard == LogReceived(log, observers, got.got)
           out   == notify(subscribers, unhooks, faulty, heard, note)
           done  == [fit EXCEPT !.adopted = [i \in 1..Len(got.received) |->
                                                [client |-> got.received[i],
                                                 state  |-> got.got[i].data]]]
       IN /\ buffer' = got.buffer
          /\ trace' = trace \o Events("model_in", 0, st.appended)
                            \o Events("adopt", 0, got.received)
          /\ IF got.status # "ok"
             THEN /\ fit' = [done EXCEPT !.status = got.status]
                  /\ log' = heard
                  /\ UNCHANGED <<notes, scall, subscribers>>
             ELSE IF evals = <<>>
             THEN /\ fit' = [done EXCEPT !.status = "IndexError"]
                  /\ log' = heard
                  /\ UNCHANGED <<notes, scall, subscribers>>
             ELSE /\ fit' = [done EXCEPT !.final_evals = evals,
                                         !.status = IF out.status = "ok"
                                                    THEN "returned" ELSE out.status]
                  /\ log' = out.log
                  /\ notes' = Append(notes, note)
                  /\ scall' = Notified(subscribers, out, note)
                  /\ subscribers' = out.observers
    /\ pc' = "idle"
    /\ UNCHANGED <<observers, nsend, sent, recvd, call, servVars, rounds,
                   model, weighted, n_examples, testers, agg, faulty>>
    /\ UNCHANGED extVars

NextFit ==
    \/ FitCall
    \/ StartRound
    \/ SelectClients
    \/ BroadcastModel
    \/ Train
    \/ Aggregate
    \/ EndRound
    \/ Finalize

\* A driver builds a server over 1..FitClients clients, client i holding i
\* examples, and attaches a plain observer to it; no client or the first
\* client holds a local test set; the channel starts empty, with a mailbox
\* per party.
InitFit ==
    /\ \E n \in 1..FitClients : InitServer(n)
    /\ buffer = [m \in {"server"} \cup Range(clients) |-> <<>>]
    /\ observers = <<>>
    /\ nsend = 0
    /\ sent = [m \in Mboxes |-> 0]
    /\ recvd = [m \in Mboxes |-> 0]
    /\ call = NoCall
    /\ \E keys \in {{"fc.weight"}, ModelKeys}, w \in BOOLEAN, t \in {{}, {"c1"}} :
        InitParties(keys, w, [c \in Range(clients) |-> IndexOf(clients, c)], t)
    /\ InitObservers(<<"o1">>, {}, NewLog(1))
    /\ InitExt("base", {})

SpecFit == InitFit /\ [][NextFit]_vars

\* ------------------------------------------------ runs of the variants
\* A driver builds the server and the clients of one of the algorithms over
\* 1..VarClients clients and attaches a plain observer to the server.
InitVar ==
    /\ \E n \in 1..VarClients : InitServer(n)
    /\ buffer = [m \in {"server"} \cup Range(clients) |-> <<>>]
    /\ observers = <<>>
    /\ nsend = 0
    /\ sent = [m \in Mboxes |-> 0]
    /\ recvd = [m \in Mboxes |-> 0]
    /\ call = NoCall
    /\ \E keys \in {{"fc.weight"}, ModelKeys} :
        InitParties(keys, FALSE, [c \in Range(clients) |-> 1], {})
    /\ InitObservers(<<"o1">>, {}, NewLog(1))
    /\ \E v \in Variants : InitExt(v, {})

NextVar ==
    \/ FitCall
    \/ StartRound
    \/ SelectClients
    \/ BroadcastModel
    \/ Train
    \/ Aggregate
    \/ EndRound
    \/ Finalize

SpecVar == InitVar /\ [][NextVar]_vars

\* ------------------------------------------- observers of a running server
\* server.attach(None), server.attach(observer), server.attach([...]), at
\* any point of a run (from a callback or between two fit calls).
AttachObserver ==
    /\ \E items \in AttachLists :
        /\ subscribers' = attach(subscribers, items)
        /\ scall' = [NoSCall EXCEPT !.kind = "attach", !.items = items,
                                    !.attached = subscribers]
    /\ UNCHANGED <<chanVars, servVars, fitVars, faulty, log>>
    /\ UNCHANGED extVars

\* server.detach(observer), at any point of a run.
DetachObserver ==
    /\ \E observer \in Observers :
        /\ subscribers' = detach(subscribers, observer)
        /\ scall' = [NoSCall EXCEPT !.kind = "detach", !.items = <<observer>>,
                                    !.attached = subscribers]
    /\ UNCHANGED <<chanVars, servVars, fitVars, faulty, log>>
    /\ UNCHANGED extVars

\* A driver builds a server over one client with a fresh observer list; the
\* observer o2 it can attach may be one whose callbacks raise.
InitObs ==
    /\ InitServer(1)
    /\ buffer = [m \in {"server"} \cup Range(clients) |-> <<>>]
    /\ observers = <<>>
    /\ nsend = 0
    /\ sent = [m \in Mboxes |-> 0]
    /\ recvd = [m \in Mboxes |-> 0]
    /\ call = NoCall
    /\ InitParties({"fc.weight"}, FALSE, [c \in Range(clients) |-> 1], {})
    /\ \E bad \in {{}, {"o2"}} : InitObservers(<<>>, bad, NewLog(1))
    /\ InitExt("base", {})

NextObs ==
    \/ AttachObserver
    \/ DetachObserver
    \/ FitCall
    \/ StartRound
    \/ SelectClients
    \/ BroadcastModel
    \/ Train
    \/ Aggregate
    \/ EndRound
    \/ Finalize

SpecObs == InitObs /\ [][NextObs]_vars

\* ------------------------------------- observers that detach in a callback
\* The observers a driver attaches, in any order and without repetition,
\* as attach leaves them.
LeaveObservers == {"o1", "o2", "o3"}
LeaveLists ==
    {s \in SeqsUpTo(LeaveObservers, Cardinality(LeaveObservers)) :
        \A i, j \in 1..Len(s) : i # j => s[i] # s[j]}

\* A driver builds a server over one client and attaches observers to it;
\* the callbacks of at most one of them call server.detach, on the observer
\* itself or on others.
InitLeave ==
    /\ InitServer(1)
    /\ buffer = [m \in {"server"} \cup Range(clients) |-> <<>>]
    /\ observers = <<>>
    /\ nsend = 0
    /\ sent = [m \in Mboxes |-> 0]
    /\ recvd = [m \in Mboxes |-> 0]
    /\ call = NoCall
    /\ InitParties({"fc.weight"}, FALSE, [c \in Range(clients) |-> 1], {})
    /\ \E subs \in LeaveLists : InitObservers(subs, {}, NewLog(1))
    /\ \E o \in LeaveObservers, targets \in SUBSET LeaveObservers :
          InitExt("base", {o} \X targets)

NextLeave ==
    \/ FitCall
    \/ StartRound
    \/ SelectClients
    \/ BroadcastModel
    \/ Train
    \/ Aggregate
    \/ EndRound
    \/ Finalize

SpecLeave == InitLeave /\ [][NextLeave]_vars

\* ------------------------------------------------- a server with a Log
\* A driver builds a server over 1..LogClients clients and a Log with
\* eval_every in 1..MaxEvalEvery, and attaches the Log to the server and to
\* the channel (CentralizedFL.set_callbacks).
InitLog ==
    /\ \E n \in 1..LogClients : InitServer(n)
    /\ buffer = [m \in {"server"} \cup Range(clients) |-> <<>>]
    /\ observers = <<LogObserver>>
    /\ nsend = 0
    /\ sent = [m \in Mboxes |-> 0]
    /\ recvd = [m \in Mboxes |-> 0]
    /\ call = NoCall
    /\ \E keys \in {{"fc.weight"}, ModelKeys} :
        InitParties(keys, FALSE, [c \in Range(clients) |-> 1], {})
    /\ \E e \in 1..MaxEvalEvery : InitObservers(<<LogObserver>>, {}, NewLog(e))
    /\ InitExt("base", {})

NextLog ==
    \/ FitCall
    \/ StartRound
    \/ SelectClients
    \/ BroadcastModel
    \/ Train
    \/ Aggregate
    \/ EndRound
    \/ Finalize

SpecLog == InitLog /\ [][NextLog]_vars

\* ------------------------------------------------------ one aggregation
\* The parameter values a trained client model holds.
Vals == {1, 2, 4, 5}

\* The state dict of the i-th model sent to the server in a round: its
\* parameters at `value`, its batch counter at i.
ClientStateDict(keys, value, i) ==
    [k \in keys |-> IF k \in CounterKeys THEN Int2Rat(i) ELSE Int2Rat(value)]

\* The server's mailbox when aggregate is called: one model message per
\* entry of eligible, in the order of the training loop.
TrainedMailbox(roster, elig, keys, vals) ==
    [i \in 1..Len(elig) |->
        Message(IndexOf(roster, elig[i]),
                ModelPayload(ClientStateDict(keys, vals[i], i)),
                "model", elig[i])]

\* The mailbox without the message at position `lost`, which its client did
\* not send; lost = 0: every message is there.
Arrived(box, lost) == IF lost = 0 THEN box ELSE PopAt(box, lost)

\* A server in the middle of a round, the training loop of server.py:94-98
\* done: any eligible list (empty, or naming a client twice, as
\* get_eligible_clients can return), any trained values, any example counts;
\* the client trained last may have sent no model.
InitAgg ==
    /\ clients = SubSeq(ClientName, 1, AggClients)
    /\ perc = PercDen
    /\ rng = 0
    /\ rounds = 0
    /\ notes = <<>>
    /\ trace = <<>>
    /\ agg = NoAgg
    /\ pc = "aggregate"
    /\ observers = <<>>
    /\ nsend = 0
    /\ sent = [m \in Mboxes |-> 0]
    /\ recvd = [m \in Mboxes |-> 0]
    /\ call = NoCall
    /\ \E keys \in {{"fc.weight"}, ModelKeys}, w \in BOOLEAN,
          ex \in [Range(clients) -> 1..MaxEx],
          elig \in SeqsUpTo(Range(clients), MaxElig) :
        \E vals \in [1..Len(elig) -> Vals], lost \in {0, Len(elig)} :
            /\ InitParties(keys, w, ex, {})
            /\ buffer = [m \in {"server"} \cup Range(clients) |->
                            IF m = "server"
                            THEN Arrived(TrainedMailbox(clients, elig, keys, vals), lost)
                            ELSE <<>>]
            /\ eligible = elig
            /\ fit = [NoFit EXCEPT !.n_rounds = 1, !.total_rounds = 1,
                                   !.c = Len(elig) + 1, !.status = "running"]
    /\ InitObservers(<<"o1">>, {}, NewLog(1))
    /\ InitExt("base", {})

NextAgg == Aggregate

SpecAgg == InitAgg /\ [][NextAgg]_vars

\* ------------------------------------------------ the variants' clients
\* The keys of a model with batch-norm layers, and key.startswith("bn").
BNKeys == {"fc.weight", "bn.weight", "block.bn.weight"}
StartsWithBn(key) == key \in {"bn.weight", "bn.num_batches_tracked"}

\* The key of the part of a personalized model the client keeps to itself.
PrivateKeys == {"head.weight"}

\* The state dicts over the given keys with values 0..MaxVal.
StateDicts(keys) == [keys -> {Int2Rat(x) : x \in 0..MaxVal}]

\* The state of a client's model, the global model being in state g.
State(cm, g) == IF cm.ref = "global" THEN g ELSE cm.sd

\* Mutant of bn_receive: the first call keeps the received object.
bn_receive_aliasing(cm, g) ==
    IF cm.ref = "none"
    THEN ClientModel("global", g, cm.private)
    ELSE ClientModel(cm.ref,
                     [k \in DOMAIN g |-> IF StartsWithBn(k) THEN State(cm, g)[k] ELSE g[k]],
                     cm.private)

\* FedBNClient.receive(model), the global model being in state g
\* (fedbn.py:14-22): the first call binds self.model to a deep copy; a later
\* call copies the value of every key that does not start with "bn".
bn_receive(cm, g) ==
    IF cm.ref = "none"
    THEN ClientModel("own", g, cm.private)
    ELSE ClientModel(cm.ref,
                     [k \in DOMAIN g |-> IF StartsWithBn(k) THEN State(cm, g)[k] ELSE g[k]],
                     cm.private)

\* safe_load_state_dict(module, sd) of fluke.utils.model: the values of the
\* keys the module has are copied.
safe_load_state_dict(own, sd) ==
    {[status |-> "ok",
      model  |-> [k \in DOMAIN own |-> IF k \in DOMAIN sd THEN sd[k] ELSE own[k]]]}

\* FedPerClient._receive_model and FedDiselClient._receive_model
\* (fedper.py:22-26, feddisel.py:19-23): self.model is bound to the
\* personalized model, one model message of the server is taken from the
\* client's mailbox and its state is loaded into the shared part, by
\* safe_load_state_dict (FedPer) or load_state_dict (FedDisel).
pfl_receive_model(v, buf, obs, cm, client) ==
    LET r == receive(buf, obs, client, "server", "model")
        mine == ClientModel("own", cm.sd, cm.private)
    IN IF r.status # "ok"
       THEN {[status |-> r.status, buffer |-> r.buffer, model |-> mine, msg |-> NoMsg]}
       ELSE {[status |-> l.status, buffer |-> r.buffer, msg |-> r.ret,
              model |-> ClientModel("own", l.model, cm.private)] :
                l \in IF v = "fedper"
                      THEN safe_load_state_dict(cm.sd, r.ret.payload.data)
                      ELSE load_state_dict(cm.sd, r.ret.payload.data)}

\* Mutant of pfl_send_model: the whole model is sent.
pfl_send_model_whole(buf, cm, client, id) ==
    IF cm.ref = "none"
    THEN [status |-> "AttributeError", buffer |-> buf, msg |-> NoMsg]
    ELSE LET whole == [k \in DOMAIN cm.sd \cup DOMAIN cm.private |->
                          IF k \in DOMAIN cm.sd THEN cm.sd[k] ELSE cm.private[k]]
             msg == Message(id, ModelPayload(whole), "model", client)
         IN [status |-> "ok", msg |-> msg,
             buffer |-> send(ChanState(buf), msg, "server").buffer]

\* FedPerClient._send_model and FedDiselClient._send_model (fedper.py:19-20,
\* feddisel.py:16-17): a deep copy of the shared part (get_global(), fed_E)
\* is sent to the server as a model message; on a client whose model is None
\* the attribute access raises.
pfl_send_model(buf, cm, client, id) ==
    IF cm.ref = "none"
    THEN [status |-> "AttributeError", buffer |-> buf, msg |-> NoMsg]
    ELSE LET msg == Message(id, ModelPayload(cm.sd), "model", client)
         IN [status |-> "ok", msg |-> msg,
             buffer |-> send(ChanState(buf), msg, "server").buffer]

\* The client's model as it stands, by value.
Snapshot == ClientModel(cmodel.ref, State(cmodel, model), cmodel.private)

\* A call of a method of client c1, and a step of another party.
CCall(kind, status, msg) ==
    [kind |-> kind, status |-> status, before |-> Snapshot,
     boxes |-> buffer, msg |-> msg]
Step(kind) == [NoCCall EXCEPT !.kind = kind]

\* client.receive(server.model) on a FedBN client.
BNReceive ==
    /\ variant = "fedbn"
    /\ cmodel' = bn_receive(cmodel, model)
    /\ ccall' = CCall("receive", "ok", NoMsg)
    /\ UNCHANGED <<chanVars, servVars, fitVars, obsVars, variant, unhooks, split>>

\* client._receive_model() on a FedPer or FedDisel client.
PFLReceive ==
    /\ variant \in {"fedper", "feddisel"}
    /\ \E out \in pfl_receive_model(variant, buffer, observers, cmodel, "c1") :
        /\ buffer' = out.buffer
        /\ cmodel' = out.model
        /\ ccall' = CCall("_receive_model", out.status, out.msg)
    /\ UNCHANGED <<observers, nsend, sent, recvd, call>>
    /\ UNCHANGED <<servVars, fitVars, obsVars, variant, unhooks, split>>

\* client._send_model() on a FedPer or FedDisel client.
PFLSend ==
    /\ variant \in {"fedper", "feddisel"}
    /\ nsend < MaxSends
    /\ LET out == pfl_send_model(buffer, cmodel, "c1", nsend + 1)
       IN /\ buffer' = out.buffer
          /\ nsend' = IF out.status = "ok" THEN nsend + 1 ELSE nsend
          /\ ccall' = CCall("_send_model", out.status, out.msg)
    /\ UNCHANGED <<observers, sent, recvd, call, cmodel>>
    /\ UNCHANGED <<servVars, fitVars, obsVars, variant, unhooks, split>>

\* The server sends its model to the client: server._broadcast_model([c1]).
ServerPost ==
    /\ variant \in {"fedper", "feddisel"}
    /\ nsend < MaxSends
    /\ buffer' = broadcast(ChanState(buffer),
                           Message(0, ModelPayload(model), "model", "server"),
                           <<"c1">>).buffer
    /\ nsend' = nsend + 1
    /\ ccall' = Step("post")
    /\ UNCHANGED <<observers, sent, recvd, call>>
    /\ UNCHANGED <<servVars, fitVars, obsVars, variant, unhooks, cmodel, split>>

\* The server's model takes new values in place, as load_state_dict in
\* aggregate makes it; a client bound to that object sees them.
GlobalUpdate ==
    /\ model' \in StateDicts(DOMAIN model) \ {model}
    /\ ccall' = [Step("update") EXCEPT !.before = Snapshot]
    /\ UNCHANGED <<chanVars, servVars, rounds, weighted, n_examples, testers,
                   pc, fit, notes, trace, agg>>
    /\ UNCHANGED <<obsVars, variant, unhooks, cmodel, split>>

\* The client trains: the parameters of its model take new values.
ClientTrain ==
    /\ cmodel.ref = "own"
    /\ \E sd \in StateDicts(DOMAIN cmodel.sd), pr \in StateDicts(DOMAIN cmodel.private) :
        cmodel' = ClientModel("own", sd, pr)
    /\ ccall' = Step("train")
    /\ UNCHANGED <<chanVars, servVars, fitVars, obsVars, variant, unhooks, split>>

\* A driver builds client c1 of FedBN, FedPer or FedDisel and the server's
\* model: a FedBN client starts without a model, a FedPer or FedDisel client
\* with its personalized model and self.model = None.
InitClient ==
    /\ InitChannel
    /\ InitServer(1)
    /\ InitObservers(<<>>, {}, NewLog(1))
    /\ weighted = FALSE
    /\ n_examples = [c \in {"c1"} |-> 1]
    /\ testers = {}
    /\ variant \in {"fedbn", "fedper", "feddisel"}
    /\ model \in StateDicts(IF variant = "fedbn" THEN BNKeys ELSE {"fc.weight"})
    /\ cmodel \in IF variant = "fedbn" THEN {NoClientModel}
                  ELSE {ClientModel("none", sd, pr) :
                            sd \in StateDicts({"fc.weight"}),
                            pr \in StateDicts(PrivateKeys)}
    /\ unhooks = {}
    /\ ccall = NoCCall
    /\ split = NoSplit

NextClient ==
    \/ BNReceive
    \/ PFLReceive
    \/ PFLSend
    \/ ServerPost
    \/ GlobalUpdate
    \/ ClientTrain

SpecClient == InitClient /\ [][NextClient]_vars

\* ----------------------------------------------------------- DataSplitter
\* The data container: MaxRows training examples, half as many test
\* examples.
TrainData == [X |-> Tensor("X", MaxRows), y |-> Tensor("y", MaxRows)]
TestData  == [X |-> Tensor("X", MaxRows \div 2), y |-> Tensor("y", MaxRows \div 2)]

\* sklearn's train_test_split(X, y, test_size = k / PercDen): the tuple
\* (X_train, X_test, y_train, y_test), with ceil(test_size * rows) test rows;
\* a test_size outside (0, 1) or an empty training part raises ValueError.
train_test_split(X, y, k) ==
    LET n_test == (X.rows * k + PercDen - 1) \div PercDen
    IN IF k <= 0 \/ k >= PercDen \/ X.rows - n_test = 0
       THEN [status |-> "ValueError", ret |-> <<>>]
       ELSE [status |-> "ok",
             ret |-> <<Tensor(X.what, X.rows - n_test), Tensor(X.what, n_test),
                       Tensor(y.what, y.rows - n_test), Tensor(y.what, n_test)>>]

\* DataSplitter._safe_train_test_split (data/__init__.py:228-244): with
\* test_size == 0.0 it returns (X, y, None, None); else the stratified split,
\* and on ValueError the random split, which raises for the same sizes.
safe_train_test_split(X, y, k) ==
    IF k = 0
    THEN [status |-> "ok", ret |-> <<X, y, NoTensor, NoTensor>>]
    ELSE train_test_split(X, y, k)

\* DataSplitter.uniform(X, y, n): the sizes of the n index sets; the first
\* takes the remainder. X.shape[0] < n fails the assertion, n = 0 divides by
\* zero, X = None has no shape.
uniform(X, n) ==
    IF X = NoTensor THEN [status |-> "AttributeError", sizes |-> <<>>]
    ELSE IF X.rows < n THEN [status |-> "AssertionError", sizes |-> <<>>]
    ELSE IF n = 0 THEN [status |-> "ZeroDivisionError", sizes |-> <<>>]
    ELSE [status |-> "ok",
          sizes |-> [c \in 1..n |-> (X.rows \div n)
                                     + (IF c = 1 THEN X.rows % n ELSE 0)]]

\* The locals of assign after its first statement (data/__init__.py:329-354):
\* the four client tensors, and whether the names client_Xtr ... and Xte, yte
\* are bound. With server_test and without keep_test only client_X, client_Y
\* are assigned.
assign_locals(sp) ==
    LET merged(t) == Tensor(t, TrainData.X.rows + TestData.X.rows)
        cut == safe_train_test_split(
                   IF sp.keep_test THEN TrainData.X ELSE merged("X"),
                   IF sp.keep_test THEN TrainData.y ELSE merged("y"),
                   sp.client_split)
        bind(st, t, b, g) == [status |-> st, Xtr |-> t[1], Xte |-> t[2],
                              Ytr |-> t[3], Yte |-> t[4],
                              bound |-> b, test_bound |-> g]
        none == <<NoTensor, NoTensor, NoTensor, NoTensor>>
    IN IF sp.server_test /\ sp.keep_test
       THEN IF cut.status = "ok" THEN bind("ok", cut.ret, TRUE, FALSE)
            ELSE bind(cut.status, none, FALSE, FALSE)
       ELSE IF ~sp.keep_test
       THEN IF sp.server_test
            THEN LET server == train_test_split(merged("X"), merged("y"),
                                                sp.server_split)
                 IN bind(server.status, none, FALSE, TRUE)
            ELSE IF cut.status = "ok" THEN bind("ok", cut.ret, TRUE, TRUE)
                 ELSE bind(cut.status, none, FALSE, TRUE)
       ELSE bind("ok", <<TrainData.X, TestData.X, TrainData.y, TestData.y>>,
                 TRUE, FALSE)

\* DataSplitter.assign(n_clients, batch_size) with the IID distribution
\* (data/__init__.py:313-397): how it ends and the handles it returns.
\* Reading an unbound local raises UnboundLocalError, indexing None raises
\* TypeError, indexing a tensor beyond its rows raises IndexError.
assign(sp, n) ==
    LET loc == assign_locals(sp)
        fail(st) == [status |-> st, train |-> <<>>, test |-> <<>>]
        te == IF sp.uniform_test THEN uniform(TestData.X, n) ELSE uniform(loc.Xte, n)
        tr == uniform(loc.Xtr, n)
        handles(X, Y, sizes) ==
            [c \in 1..n |-> Loader(Tensor(X.what, sizes[c]), Tensor(Y.what, sizes[c]))]
    IN IF loc.status # "ok" THEN fail(loc.status)
       ELSE IF ~loc.bound THEN fail("UnboundLocalError")
       ELSE IF loc.Xte # NoTensor /\ sp.uniform_test /\ ~loc.test_bound
       THEN fail("UnboundLocalError")
       ELSE IF loc.Xte # NoTensor /\ te.status # "ok" THEN fail(te.status)
       ELSE IF tr.status # "ok" THEN fail(tr.status)
       ELSE IF loc.Ytr = NoTensor THEN fail("TypeError")
       ELSE IF loc.Xte = NoTensor
       THEN [status |-> "ok", train |-> handles(loc.Xtr, loc.Ytr, tr.sizes),
             test |-> [c \in 1..n |-> NoLoader]]
       ELSE IF loc.Yte = NoTensor THEN fail("TypeError")
       ELSE IF sp.uniform_test /\ TestData.X.rows > loc.Xte.rows
       THEN fail("IndexError")
       ELSE [status |-> "ok", train |-> handles(loc.Xtr, loc.Ytr, tr.sizes),
             test |-> handles(loc.Xte, loc.Yte, te.sizes)]

\* DataSplitter(dataset, client_split = cs / PercDen, server_test, keep_test,
\* server_split = ss / PercDen, uniform_test): the assertions of __init__
\* (data/__init__.py:281-288) hold, else no splitter is built.
NewSplitter ==
    /\ ~split.built
    /\ \E cs \in 0..PercDen, ss \in {0, PercDen \div 2},
          st \in BOOLEAN, kt \in BOOLEAN, ut \in BOOLEAN :
        /\ ~(~kt /\ st /\ ss = 0)
        /\ ~(~st /\ cs = 0)
        /\ split' = [NoSplit EXCEPT !.built = TRUE, !.client_split = cs,
                                    !.server_test = st, !.keep_test = kt,
                                    !.server_split = ss, !.uniform_test = ut]
    /\ UNCHANGED <<chanVars, servVars, fitVars, obsVars>>
    /\ UNCHANGED <<variant, unhooks, cmodel, ccall>>

\* splitter.assign(n_clients, batch_size), as CentralizedFL.__init__ calls it.
Assign ==
    /\ split.built
    /\ ~split.called
    /\ \E n \in 0..SplitClients :
        LET out == assign(split, n)
        IN split' = [split EXCEPT !.called = TRUE, !.n_clients = n,
                                  !.status = out.status,
                                  !.train = out.train, !.test = out.test]
    /\ UNCHANGED <<chanVars, servVars, fitVars, obsVars>>
    /\ UNCHANGED <<variant, unhooks, cmodel, ccall>>

InitSplit ==
    /\ InitChannel
    /\ InitServer(1)
    /\ InitParties({"fc.weight"}, FALSE, [c \in {"c1"} |-> 1], {})
    /\ InitObservers(<<>>, {}, NewLog(1))
    /\ InitExt("base", {})

NextSplit == NewSplitter \/ Assign

SpecSplit == InitSplit /\ [][NextSplit]_vars

\* ================================================================= claims
\* m passes the filters given to receive; an omitted filter lets every
\* message pass.
Fits(m, sender, msg_type) ==
    /\ sender \in {None, m.sender}
    /\ msg_type \in {None, m.msg_type}

\* The positions of the mailbox the call found whose message passes the
\* call's filters.
Hits == {i \in 1..Len(call.before[call.mbox]) :
            Fits(call.before[call.mbox][i], call.sender, call.msg_type)}

Filtered == call.sender # None \/ call.msg_type # None

\* C1: a receive with a sender and/or type filter on a mailbox without a
\* matching message ends with ValueError, leaves every mailbox as it was and
\* notifies no observer.
C1_FilteredMiss ==
    (call.kind = "receive" /\ Filtered /\ Hits = {})
        => /\ call.status = "ValueError"
           /\ buffer = call.before
           /\ call.notified = <<>>

C1_Witness ==
    /\ call.kind = "receive" /\ Filtered /\ Hits = {}
    /\ call.before[call.mbox] # <<>>
    /\ observers # <<>>
    /\ call.status = "ValueError"

\* C2: a receive without filters on an empty mailbox ends with the same
\* not-found error (ValueError) as a filtered receive without a match.
C2_UnfilteredEmptyIsValueError ==
    (call.kind = "receive" /\ ~Filtered /\ call.before[call.mbox] = <<>>)
        => call.status = "ValueError"

\* C3: mailbox entries are single-use. Every receive that returns a message
\* takes exactly that one entry out of the receiver's mailbox, so per mailbox
\* the receives never outnumber the appends; and right after send(m, r) into
\* a mailbox without another message passing (m.sender, m.msg_type),
\* receive(r, m.sender, m.msg_type) returns m and the same receive repeated
\* fails.
C3_SingleUse ==
    /\ \A r \in Mboxes : /\ recvd[r] <= sent[r]
                         /\ Len(buffer[r]) = sent[r] - recvd[r]
    /\ (call.kind = "receive" /\ call.status = "ok")
         => /\ \E i \in 1..Len(call.before[call.mbox]) :
                  /\ call.before[call.mbox][i] = call.ret
                  /\ buffer[call.mbox] = PopAt(call.before[call.mbox], i)
            /\ \A r \in Mboxes \ {call.mbox} : buffer[r] = call.before[r]
    /\ (/\ call.kind = "send" /\ call.msg.msg_type # ActionType
        /\ \A i \in 1..Len(call.before[call.mbox]) :
              ~Fits(call.before[call.mbox][i], call.msg.sender, call.msg.msg_type))
         => LET first == receive(buffer, observers, call.mbox,
                                 call.msg.sender, call.msg.msg_type)
                second == receive(first.buffer, observers, call.mbox,
                                  call.msg.sender, call.msg.msg_type)
            IN /\ first.status = "ok"
               /\ first.ret = call.msg
               /\ second.status # "ok"

C3_Witness ==
    /\ call.kind = "send" /\ call.msg.msg_type # ActionType
    /\ Len(call.before[call.mbox]) = 1
    /\ ~Fits(call.before[call.mbox][1], call.msg.sender, call.msg.msg_type)
    /\ recvd[call.mbox] = 1

\* C4: a send of an action message invokes the payload's operation exactly
\* once, before send returns, with the payload's keyword arguments, and
\* appends nothing to any mailbox.
C4_ActionNotBuffered ==
    (call.kind = "send" /\ call.msg.msg_type = ActionType)
        => /\ call.invoked =
                <<[target |-> IF call.msg.payload.method.callable
                              THEN call.msg.payload.method.self
                              ELSE call.mbox,
                   name   |-> call.msg.payload.method.name,
                   kwargs |-> call.msg.payload.kwargs]>>
           /\ buffer = call.before
           /\ call.appended = <<>>

C4_Witness ==
    /\ call.kind = "send" /\ call.msg.msg_type = ActionType
    /\ call.msg.payload.kwargs # {}
    /\ Len(call.invoked) = 1
    /\ \A r \in Mboxes : buffer[r] # <<>>

\* C5: a send of a non-action message puts the message at the tail of the
\* receiver's mailbox, behind the messages already there, and leaves every
\* other mailbox as it was.
C5_SendAppendsAtTail ==
    (call.kind = "send" /\ call.msg.msg_type # ActionType)
        => /\ Len(buffer[call.mbox]) = Len(call.before[call.mbox]) + 1
           /\ buffer[call.mbox][Len(buffer[call.mbox])] = call.msg
           /\ \A i \in 1..Len(call.before[call.mbox]) :
                  buffer[call.mbox][i] = call.before[call.mbox][i]
           /\ \A r \in Mboxes \ {call.mbox} : buffer[r] = call.before[r]

C5_Witness ==
    /\ call.kind = "send" /\ call.msg.msg_type # ActionType
    /\ Len(call.before[call.mbox]) = 2
    /\ buffer[call.mbox][3] = call.msg

\* C6: a receive without filters on a non-empty mailbox returns the message
\* appended last and removes it; the older messages stay, in arrival order.
C6_UnfilteredIsLifo ==
    (call.kind = "receive" /\ ~Filtered /\ call.before[call.mbox] # <<>>)
        => LET box == call.before[call.mbox]
           IN /\ call.status = "ok"
              /\ call.ret = box[Len(box)]
              /\ buffer[call.mbox] = SubSeq(box, 1, Len(box) - 1)
              /\ \A r \in Mboxes \ {call.mbox} : buffer[r] = call.before[r]

C6_Witness ==
    /\ call.kind = "receive" /\ ~Filtered /\ call.status = "ok"
    /\ Len(call.before[call.mbox]) = 3
    /\ call.ret.id = 3

\* C7: a receive with a sender and/or type filter returns the earliest
\* message of the mailbox that passes every given filter and removes it; all
\* other messages stay, in their order.
C7_FilteredIsFirstMatch ==
    (call.kind = "receive" /\ Filtered /\ Hits # {})
        => LET box == call.before[call.mbox]
               i == CHOOSE h \in Hits : \A j \in Hits : h <= j
           IN /\ call.status = "ok"
              /\ call.ret = box[i]
              /\ buffer[call.mbox] = SubSeq(box, 1, i - 1) \o SubSeq(box, i + 1, Len(box))
              /\ \A r \in Mboxes \ {call.mbox} : buffer[r] = call.before[r]

C7_Witness ==
    /\ call.kind = "receive" /\ Filtered /\ call.status = "ok"
    /\ Hits = {2, 3}
    /\ call.ret = call.before[call.mbox][2]

\* C8: a broadcast of a non-action message appends the message to the
\* mailbox of each listed receiver, in list order and once per occurrence in
\* the list, and leaves the mailbox of every unlisted receiver as it was.
C8_BroadcastAppendsPerOccurrence ==
    (call.kind = "broadcast" /\ call.msg.msg_type # ActionType)
        => /\ call.appended = call.to
           /\ \A r \in Mboxes :
                LET k == Cardinality({i \in 1..Len(call.to) : call.to[i] = r})
                IN buffer[r] = call.before[r] \o [i \in 1..k |-> call.msg]

C8_Witness ==
    /\ call.kind = "broadcast" /\ call.msg.msg_type # ActionType
    /\ Len(call.to) = 2 /\ call.to[1] = call.to[2]
    /\ \E r \in Mboxes : buffer[r] = call.before[r] /\ buffer[r] # <<>>

C10_SampleWithoutReplacement ==
    perc # PercDen =>
        \A i, j \in 1..Len(eligible) : i # j => eligible[i] # eligible[j]

\* The events of the current round with the given name, in order.
EventsOf(ev) == SelectSeq(trace, LAMBDA e : e.ev = ev)

\* The notifications of the current fit call with the given name, in order.
NotesOf(ev) == SelectSeq(notes, LAMBDA e : e.ev = ev)

\* q is the floor of n_clients * eligible_perc, for eligible_perc = k / PercDen.
IsFloor(q, n_clients, k) ==
    /\ q * PercDen <= n_clients * k
    /\ n_clients * k < (q + 1) * PercDen

\* C11: in every round the list reported by selected_clients has
\* floor(n_clients * eligible_perc) entries, all of them clients of the
\* roster, and that many global models are broadcast, train actions sent and
\* client models aggregated.
C11_SelectedCount ==
    /\ \A i \in 1..Len(notes) :
          notes[i].ev = "selected_clients" => IsFloor(notes[i].n, Len(clients), fit.perc)
    /\ pc \in {"broadcast", "train", "aggregate", "end_round"} =>
          /\ IsFloor(Len(eligible), Len(clients), fit.perc)
          /\ \A i \in 1..Len(eligible) : eligible[i] \in Range(clients)
    /\ pc \in {"train", "aggregate", "end_round"} =>
          IsFloor(Len(EventsOf("model_in")), Len(clients), fit.perc)
    /\ pc \in {"aggregate", "end_round"} =>
          IsFloor(Len(EventsOf("train")), Len(clients), fit.perc)
    /\ pc = "end_round" =>
          IsFloor(Len(agg.clients_sd), Len(clients), fit.perc)

\* 2 clients with the fraction 1/2: one client is selected, trained and
\* aggregated.
C11_Witness ==
    /\ pc = "end_round"
    /\ Len(clients) = 2
    /\ 2 * fit.perc = PercDen
    /\ NotesOf("selected_clients")[1].n = 1
    /\ Len(eligible) = 1
    /\ Len(agg.clients_sd) = 1

\* C12: a selection with the eligible fraction 1 returns the whole roster in
\* roster order and leaves the random source as it was.
C12_FullRosterNoRandomness ==
    [][perc' = PercDen => (eligible' = clients /\ rng' = rng)]_vars

\* The whole roster of several clients was selected after the random source
\* had been used.
C12_Witness ==
    /\ perc = PercDen
    /\ Len(clients) > 1
    /\ eligible = clients
    /\ rng = MaxDraws

\* The round numbers named by the notifications `ev` of the current fit call.
RoundsOf(ev) == [i \in 1..Len(NotesOf(ev)) |-> NotesOf(ev)[i].round]

\* The rounds first + 1, ..., first + n in order.
Consecutive(first, n) == [i \in 1..n |-> first + i]

\* C13: a fit(n_rounds, fraction) call that returned without an error
\* notified start_round and end_round n_rounds times each, numbered
\* consecutively from the round count at entry + 1, then notified finished
\* once, as its last notification, and advanced Server.rounds by n_rounds.
C13_FitRunsNRoundsThenFinalize ==
    fit.status = "returned" =>
        /\ RoundsOf("start_round") = Consecutive(fit.first, fit.n_rounds)
        /\ RoundsOf("end_round") = Consecutive(fit.first, fit.n_rounds)
        /\ Len(NotesOf("finished")) = 1
        /\ notes[Len(notes)].ev = "finished"
        /\ rounds = fit.first + fit.n_rounds

\* A second fit call on a server that has run a round returned after
\* another round.
C13_Witness ==
    /\ fit.status = "returned"
    /\ fit.first = 1
    /\ fit.n_rounds = 1
    /\ rounds = 2
    /\ Len(notes) = 4

\* The rounds of the current fit call that have ended.
EndedRounds == (fit.first + 1)..fit.round

\* The number of notifications `ev` of the current fit call that name round r.
Told(ev, r) == Cardinality({i \in 1..Len(notes) : notes[i].ev = ev /\ notes[i].round = r})

\* C14: start_round(r) precedes every global model of round r that enters a
\* client's mailbox; a round that has ended was announced by exactly one
\* start_round, one selected_clients and one end_round, all naming r, a
\* round under way by at most one of each; the first round of a server that
\* has run none is round 1.
C14_StartRoundFirstAndOncePerRound ==
    /\ \A j \in 1..Len(trace) :
          (trace[j].ev = "model_in" /\ trace[j].round > 0) =>
              \E i \in 1..(j - 1) : /\ trace[i].ev = "start_round"
                                    /\ trace[i].round = trace[j].round
    /\ \A ev \in {"start_round", "selected_clients", "end_round"} :
          /\ \A r \in EndedRounds : Told(ev, r) = 1
          /\ \A i \in 1..Len(notes) :
                notes[i].ev = ev => /\ notes[i].round \in (fit.first + 1)..(fit.round + 1)
                                    /\ Told(ev, notes[i].round) = 1
    /\ (fit.first = 0 /\ NotesOf("start_round") # <<>>) =>
          NotesOf("start_round")[1].round = 1

\* The second round of a server has ended after the global model went to
\* several clients.
C14_Witness ==
    /\ rounds = 2
    /\ fit.first = 0
    /\ Len(EventsOf("model_in")) >= 2
    /\ EventsOf("end_round") # <<>>
    /\ Told("selected_clients", 2) = 1

\* C15: in every round the observers are told selected_clients(r) before
\* start_round(r).
C15_SelectedBeforeStartRound ==
    \A i \in 1..Len(trace) :
        trace[i].ev = "start_round" =>
            \E j \in 1..(i - 1) : /\ trace[j].ev = "selected_clients"
                                  /\ trace[j].round = trace[i].round

\* C16: when the train action goes to an eligible client, the server has
\* received the model of every client it commanded to train before.
C16_ReceiveBeforeNextTrain ==
    \A i, j \in 1..Len(trace) :
        (i < j /\ trace[i].ev = "train" /\ trace[j].ev = "train") =>
            \E m \in (i + 1)..(j - 1) : /\ trace[m].ev = "receive"
                                        /\ trace[m].who = trace[i].who

\* C17: the train actions of a round go to clients of strictly increasing
\* roster position.
C17_TrainInRosterOrder ==
    \A i, j \in 1..Len(trace) :
        (i < j /\ trace[i].ev = "train" /\ trace[j].ev = "train") =>
            IndexOf(clients, trace[i].who) < IndexOf(clients, trace[j].who)

\* An aggregation has run on the list `agg.eligible`.
Aggregated == agg.status # "none"

\* C18: Server.aggregate completes and leaves the global model with the keys
\* it had, counter keys included.
C18_AggregateKeepsKeys ==
    Aggregated => /\ agg.status = "ok"
                  /\ DOMAIN model = DOMAIN agg.before

\* C19: the avg_model_sd that Server.aggregate loads into the global model
\* holds every counter key of the model, with the value one of the
\* aggregated client models has for it.
C19_CounterCarriedOver ==
    (Aggregated /\ agg.clients_sd # <<>> /\ agg.weights # <<>>) =>
        \A k \in DOMAIN agg.before \cap CounterKeys :
            /\ k \in DOMAIN agg.result
            /\ \E i \in 1..Len(agg.clients_sd) : agg.result[k] = agg.clients_sd[i][k]

\* The weight the claim gives the i-th eligible client.
ClaimedWeight(i) ==
    IF weighted
    THEN Rat(n_examples[agg.eligible[i]],
             Sum([j \in 1..Len(agg.eligible) |-> Int2Rat(n_examples[agg.eligible[j]])])[1])
    ELSE Rat(1, Len(agg.eligible))

\* The sum over the eligible clients of weight * client model value.
ClaimedValue(k) ==
    Sum([i \in 1..Len(agg.eligible) |-> Mul(ClaimedWeight(i), agg.clients_sd[i][k])])

\* The values the aggregated client models hold for the parameter.
Held == [i \in 1..Len(agg.clients_sd) |-> agg.clients_sd[i]["fc.weight"]]

\* C20: an aggregation over a non-empty eligible list that completes has
\* used the weights example_count_i / sum of example counts (weighted) or
\* 1 / len(eligible) (unweighted), which are non-negative and sum to 1, and
\* leaves every non-counter key at the weighted sum of the client values;
\* unweighted, 1 and 2 give 3/2, 4 and 5 give 9/2.
C20_WeightedAverage ==
    (agg.status = "ok" /\ agg.eligible # <<>>) =>
        /\ Len(agg.weights) = Len(agg.eligible)
        /\ \A i \in 1..Len(agg.eligible) :
              /\ agg.weights[i] = ClaimedWeight(i)
              /\ agg.weights[i][1] >= 0 /\ agg.weights[i][2] > 0
        /\ Sum(agg.weights) = Int2Rat(1)
        /\ \A k \in DOMAIN model \ CounterKeys : model[k] = ClaimedValue(k)
        /\ (~weighted /\ Held = <<Int2Rat(1), Int2Rat(2)>>) => model["fc.weight"] = <<3, 2>>
        /\ (~weighted /\ Held = <<Int2Rat(4), Int2Rat(5)>>) => model["fc.weight"] = <<9, 2>>

\* Unweighted, the clients c1 and c2 of unequal example counts hold 4 and 5
\* and the global model got 9/2.
C20_Witness ==
    /\ agg.status = "ok"
    /\ ~weighted
    /\ agg.eligible = <<"c1", "c2">>
    /\ n_examples["c1"] # n_examples["c2"]
    /\ Held = <<Int2Rat(4), Int2Rat(5)>>
    /\ model["fc.weight"] = <<9, 2>>

\* The eligible clients of the aggregation all hold the same number of
\* examples.
EqualCounts ==
    \A i, j \in 1..Len(agg.eligible) :
        n_examples[agg.eligible[i]] = n_examples[agg.eligible[j]]

\* What _get_client_weights returns for the aggregated list with the
\* hyper-parameter weighted at w.
WeightsIf(w) == get_client_weights(agg.eligible, w, n_examples)

\* C21: when the eligible clients hold equal example counts, the weighted and
\* the unweighted _get_client_weights end alike with the same weights, and
\* the averages built from the collected client models are the same.
C21_EqualCountsSameWeights ==
    (Aggregated /\ EqualCounts) =>
        /\ WeightsIf(TRUE) = WeightsIf(FALSE)
        /\ average(agg.before, agg.clients_sd, WeightsIf(TRUE).weights)
             = average(agg.before, agg.clients_sd, WeightsIf(FALSE).weights)

\* The events of finalize (round 0) with the given name, in order.
FinalEventsOf(ev) == SelectSeq(trace, LAMBDA e : e.ev = ev /\ e.round = 0)

\* C22: when fit has returned, finalize has put exactly one model message
\* into the mailbox of every client of the roster, in roster order, and every
\* client has taken it, in roster order; the state each took is the final
\* global state, and no client mailbox holds a message.
C22_FinalizeAddressesRoster ==
    fit.status = "returned" =>
        /\ FinalEventsOf("model_in") = Events("model_in", 0, clients)
        /\ FinalEventsOf("adopt") = Events("adopt", 0, clients)
        /\ fit.adopted = [i \in 1..Len(clients) |->
                             [client |-> clients[i], state |-> model]]
        /\ \A i \in 1..Len(clients) : buffer[clients[i]] = <<>>

\* A server over 3 clients returned from its first fit call, of one round with
\* one eligible client; c3 was not eligible and took the final state.
C22_Witness ==
    /\ fit.status = "returned"
    /\ fit.first = 0 /\ fit.n_rounds = 1
    /\ Len(clients) = 3
    /\ Len(eligible) = 1
    /\ "c3" \notin Range(eligible)
    /\ Len(fit.adopted) = 3
    /\ fit.adopted[3] = [client |-> "c3", state |-> model]
    /\ model["fc.weight"] = Int2Rat(1)

\* The clients of the roster whose validate() returns an evaluation.
Evaluating == Range(clients) \cap testers

\* The finished notification of the fit call that returned.
Finished == NotesOf("finished")[1]

\* The evaluations handed to finished: none when it was handed None.
HandedOver == IF Finished.n = -1 THEN {} ELSE Range(fit.final_evals) \ {None}

\* C23: when fit has returned, finished was handed a collection, never None;
\* the collection holds the evaluation of every client of the roster that has
\* local metrics, and is of length 0 when no client has.
C23_FinishedGetsEvaluations ==
    fit.status = "returned" =>
        /\ Finished.n # -1
        /\ Evaluating \subseteq HandedOver
        /\ Evaluating = {} => Finished.n = 0

\* The last notification the server emitted is end_round.
RoundEnded == notes # <<>> /\ notes[Len(notes)].ev = "end_round"

\* The eligible clients of the round that return metrics, in the order of
\* the training loop.
WithMetrics == SelectSeq(eligible, LAMBDA c : c \in testers)

Emitted == scall.kind = "notify"

\* C25: a notification during which the callback of an attached observer
\* raised has still reached every attached observer, and the fit call goes
\* on to its end instead of ending with the observer's exception.
C25_ObserverFailureContained ==
    (Emitted /\ \E i \in 1..Len(scall.called) : scall.called[i] \in faulty) =>
        /\ scall.called = scall.attached
        /\ scall.status = "ok"
        /\ fit.status \in {"running", "returned"}

\* C28: a notification reaches exactly the observers attached when it is
\* emitted, those attached before it and not detached since; an observer
\* that was detached is no longer in the list, one that was attached is;
\* detaching an observer that is not attached and attaching None leave the
\* list as it was.
C28_NotifiedWhileAttached ==
    /\ Emitted => scall.called = scall.attached
    /\ scall.kind = "detach" =>
          /\ scall.items[1] \notin Range(subscribers)
          /\ scall.items[1] \notin Range(scall.attached) => subscribers = scall.attached
    /\ scall.kind = "attach" =>
          /\ Range(scall.items) \subseteq Range(subscribers)
          /\ scall.items = <<>> => subscribers = scall.attached

\* No entry of the list occurs twice.
Distinct(s) == \A i, j \in 1..Len(s) : i # j => s[i] # s[j]

\* C29: the server's observer list never holds an observer twice; attach
\* keeps the list it finds as a prefix, in order, and leaves it as it is when
\* every observer handed in is attached already; a notification calls no
\* observer twice; attaching one observer to an empty list gives the list of
\* that observer.
C29_AttachIdempotent ==
    /\ Distinct(subscribers)
    /\ scall.kind = "attach" =>
          /\ SubSeq(subscribers, 1, Len(scall.attached)) = scall.attached
          /\ Range(scall.items) \subseteq Range(scall.attached) =>
                subscribers = scall.attached
          /\ (scall.attached = <<>> /\ Len(scall.items) = 1) =>
                subscribers = scall.items
    /\ Emitted => Distinct(scall.called)

\* In the middle of a round, o1 and o2 being attached, attach(o1) was called
\* and left the list as it was.
C29_Witness ==
    /\ scall.kind = "attach"
    /\ scall.items = <<"o1">>
    /\ scall.attached = <<"o1", "o2">>
    /\ subscribers = <<"o1", "o2">>
    /\ pc = "train"

\* The aggregation found the model of an eligible client missing.
ModelMissing == Aggregated /\ Len(agg.clients_sd) < Len(agg.eligible)

\* C26: an aggregation that finds no model message of an eligible client in
\* the server's mailbox ends fit with the ValueError of Channel.receive: no
\* further receive is tried, the global model is the one the round started
\* with, the round counter is not advanced and neither end_round nor finished
\* is notified.
C26_ProtocolErrorEndsFit ==
    ModelMissing =>
        /\ agg.status = "ValueError"
        /\ fit.status = "ValueError"
        /\ pc = "idle"
        /\ Len(EventsOf("receive")) = Len(agg.clients_sd)
        /\ model = agg.before
        /\ rounds = fit.round
        /\ NotesOf("end_round") = <<>>
        /\ NotesOf("finished") = <<>>

\* The eligible clients c1, c2 were trained, the model of c1 was received and
\* that of c2 was missing.
C26_Witness ==
    /\ agg.eligible = <<"c1", "c2">>
    /\ agg.status = "ValueError"
    /\ Len(agg.clients_sd) = 1
    /\ EventsOf("receive") = Events("receive", 1, <<"c1">>)
    /\ buffer["server"] = <<>>

\* The fit call under way, or the last one made, was given a fraction that
\* is 0 or that selects no client of the roster.
InvalidFraction ==
    /\ fit.status # "none"
    /\ (Len(clients) * fit.perc) \div PercDen = 0

\* C27: a fit call with an invalid eligible fraction is rejected at once: no
\* start_round and no selected_clients is notified, no model enters a
\* mailbox, no aggregation is tried, the round counter stays as it was.
C27_InvalidFractionRejectedEagerly ==
    InvalidFraction =>
        /\ notes = <<>>
        /\ trace = <<>>
        /\ agg = NoAgg
        /\ rounds = fit.first
        /\ pc \in {"idle", "start_round", "finalize"}

\* The round the server is in, or was in last: the one start_round opened.
LoggedRound == trace[1].round

\* The summed sizes of the messages that were received through the channel
\* between start_round(r) and end_round(r): the global model taken by each
\* trained client and the client models taken by the server.
ReceivedIn(r) ==
    get_size(ModelPayload(model))
        * Cardinality({i \in 1..Len(trace) : /\ trace[i].ev \in {"adopt", "receive"}
                                             /\ trace[i].round = r})

\* C30: the communication cost the Log holds for a round is the summed size
\* of the messages received through the channel between the start_round and
\* the end_round of that round.
C30_CommCostOfRound ==
    (trace # <<>> /\ trace[1].ev = "start_round") =>
        /\ LoggedRound \in DOMAIN log.comm_costs
        /\ log.comm_costs[LoggedRound] = ReceivedIn(LoggedRound)

\* The events of round r of the base Server with base clients, for the
\* sample elig, up to the point where end_round is due: the two
\* notifications, the global model put into each mailbox, per client the
\* train action and the client's receive, then the server's receives.
BaseRound(r, elig) ==
    <<Event("start_round", r, None), Event("selected_clients", r, None)>>
    \o Events("model_in", r, elig)
    \o [i \in 1..(2 * Len(elig)) |->
           Event(IF i % 2 = 1 THEN "train" ELSE "adopt", r, elig[(i + 1) \div 2])]
    \o Events("receive", r, elig)

ServerReceives == SelectSeq(trace, LAMBDA e : e.ev = "receive")

\* C31: whatever the variant, a round produces the notifications and channel
\* events of the base Server with base clients for the same sample: when
\* end_round is due the round's events are those of the base round, and an
\* aggregation over a non-empty sample has received one model per eligible
\* client, in order, through the channel.
C31_VariantsKeepSequence ==
    /\ pc = "end_round" => trace = BaseRound(fit.round + 1, eligible)
    /\ (agg.status # "none" /\ eligible # <<>>)
         => ServerReceives = Events("receive", trace[1].round, eligible)

\* C33: when the server is a FedAVGMServer, the aggregation of every round
\* is the one FedAVGMServer defines (differences to the pre-round global
\* state, weight-averaged, applied by the momentum optimizer step), not the
\* direct averaging of the base Server.
C33_FedAVGMAggregationRuns ==
    (variant = "fedavgm" /\ agg.status # "none")
        => agg.by = "FedAVGMServer._aggregate"

\* C32: with client_split == 0, assign completes and gives every client a
\* training handle and no test handle.
C32_NoClientSplitNoTestHandle ==
    (split.called /\ split.client_split = 0)
        => /\ split.status = "ok"
           /\ Len(split.train) = split.n_clients
           /\ \A c \in 1..Len(split.train) : split.train[c].loader
           /\ Len(split.test) = split.n_clients
           /\ \A c \in 1..Len(split.test) : ~split.test[c].loader

\* C34: the first FedBNClient.receive makes the local model a deep copy of
\* the received one: every key has the received value and the local model
\* is an object of its own, which a later change of the server's model does
\* not reach; every later receive sets the keys that do not start with "bn"
\* to the received values and leaves the keys that start with "bn" as they
\* were.
C34_FedBNReceive ==
    /\ (ccall.kind = "receive" /\ ccall.before.ref = "none")
         => /\ cmodel.ref = "own"
            /\ \A k \in DOMAIN model : State(cmodel, model)[k] = model[k]
    /\ (ccall.kind = "receive" /\ ccall.before.ref # "none")
         => \A k \in DOMAIN model :
                State(cmodel, model)[k] = IF k \in {"bn.weight"}
                                          THEN ccall.before.sd[k] ELSE model[k]
    /\ (ccall.kind = "update" /\ ccall.before.ref # "none")
         => State(cmodel, model) = ccall.before.sd

C34_Witness ==
    /\ variant = "fedbn"
    /\ ccall.kind = "receive"
    /\ ccall.before.ref = "own"
    /\ \A k \in BNKeys : ccall.before.sd[k] # model[k]
    /\ cmodel.sd["fc.weight"] = model["fc.weight"]
    /\ cmodel.sd["block.bn.weight"] = model["block.bn.weight"]
    /\ cmodel.sd["bn.weight"] # model["bn.weight"]

\* _send_model left one more message in the server's mailbox: a model
\* message of the client that carries the shared part of its model and
\* nothing else; the client's mailbox and model are as before.
SentOne ==
    /\ ccall.status = "ok"
    /\ buffer["server"] = Append(ccall.boxes["server"], ccall.msg)
    /\ buffer["c1"] = ccall.boxes["c1"]
    /\ ccall.msg.msg_type = "model"
    /\ ccall.msg.sender = "c1"
    /\ ccall.msg.payload.data = ccall.before.sd
    /\ cmodel = ccall.before

\* _receive_model took one model message of the server out of the client's
\* mailbox and gave its values to the shared part; the private part and the
\* server's mailbox are as before.
TookOne ==
    /\ ccall.status = "ok"
    /\ \E i \in 1..Len(ccall.boxes["c1"]) :
          /\ ccall.boxes["c1"][i] = ccall.msg
          /\ buffer["c1"] = PopAt(ccall.boxes["c1"], i)
    /\ ccall.msg.msg_type = "model"
    /\ ccall.msg.sender = "server"
    /\ buffer["server"] = ccall.boxes["server"]
    /\ cmodel.sd = ccall.msg.payload.data
    /\ cmodel.private = ccall.before.private

\* The call raised and left the mailboxes and the values of the client's
\* model as they were.
RaisedOnly ==
    /\ ccall.status # "ok"
    /\ buffer = ccall.boxes
    /\ cmodel.sd = ccall.before.sd
    /\ cmodel.private = ccall.before.private

\* C35 as stated: over any sequence of calls, every _send_model puts one
\* model message with a copy of the shared part into the server's mailbox,
\* and every _receive_model takes one model message of the server from the
\* client's mailbox and overwrites the shared part only.
C35_PFLAnySequence ==
    /\ ccall.kind = "_send_model" => SentOne
    /\ ccall.kind = "_receive_model" => TookOne

\* C35, amended: a _send_model made after the first _receive_model, and a
\* _receive_model made while a model message of the server lies in the
\* client's mailbox, do so; a _send_model on a client that has not received
\* yet and a _receive_model on a mailbox without such a message raise and
\* change neither a mailbox nor a value of the model.
C35_PFLInProtocol ==
    /\ ccall.kind = "_send_model"
         => IF ccall.before.ref # "none" THEN SentOne ELSE RaisedOnly
    /\ ccall.kind = "_receive_model"
         => IF \E i \in 1..Len(ccall.boxes["c1"]) :
                   /\ ccall.boxes["c1"][i].sender = "server"
                   /\ ccall.boxes["c1"][i].msg_type = "model"
            THEN TookOne ELSE RaisedOnly

C35_Witness ==
    /\ ccall.kind = "_receive_model"
    /\ ccall.status = "ok"
    /\ ccall.before.ref = "own"
    /\ Len(ccall.boxes["c1"]) = 2
    /\ Len(buffer["server"]) = 1
    /\ cmodel.sd # ccall.before.sd
    /\ cmodel.private # buffer["server"][1].payload.data

\* C36: the global model changes in no step of fit but the aggregation, so
\* it is as start_round(r) found it until the training loop of round r is
\* over and as the aggregation left it when end_round(r) is notified; and
\* the round counter moves only in the step that notifies end_round(r),
\* after the notification was delivered to every observer, from r - 1, its
\* value during the notification, to r.
C36_ModelAndCounterPerRound ==
    [][/\ pc # "aggregate" => model' = model
       /\ pc = "aggregate" => (pc' = "end_round" => agg'.status = "ok" /\ agg'.result # EmptyDict)
       /\ rounds' # rounds
            => /\ pc = "end_round"
               /\ notes' = Append(notes, Note("end_round", rounds + 1,
                                               Len(fit.client_evals)))
               /\ scall'.status = "ok" /\ scall'.called = subscribers
               /\ rounds' = rounds + 1
       /\ (pc = "end_round" /\ pc' # "idle") => rounds' = rounds + 1]_vars

C36_Witness ==
    /\ rounds = 2
    /\ Len(notes) > 0 /\ notes[Len(notes)] = Note("end_round", 2, 0)
    /\ agg.status = "ok"
    /\ model # agg.before
    /\ Len(eligible) = 2

\* A round is over: its aggregation is done and end_round is due or was
\* the last event.
RoundOver ==
    \/ pc = "end_round"
    \/ trace # <<>> /\ trace[Len(trace)].ev = "end_round"

\* C37: when the aggregation of a round starts no client mailbox holds an
\* unread model message, and when a round is over and when fit has returned
\* every mailbox, the server's and each client's, is empty; also for a
\* sample that names a client twice.
C37_MailboxesDrained ==
    /\ pc = "aggregate"
         => \A c \in Range(clients) :
                \A i \in 1..Len(buffer[c]) : buffer[c][i].msg_type # "model"
    /\ (RoundOver \/ fit.status = "returned")
         => \A m \in DOMAIN buffer : buffer[m] = <<>>

C37_Witness ==
    /\ pc = "end_round"
    /\ Len(eligible) = 2 /\ eligible[1] = eligible[2]
    /\ Len(SelectSeq(trace, LAMBDA e : e.ev = "adopt")) = 2
    /\ \A m \in DOMAIN buffer : buffer[m] = <<>>

\* The notifications of a fit call that ran its rounds from..to and finalized:
\* start_round(r), selected_clients(r), end_round(r) for each round in
\* order, then finished.
RanToFinished(ns, from, to) ==
    /\ Len(ns) = 3 * (to - from) + 1
    /\ \A r \in (from + 1)..to :
          LET i == 3 * (r - from - 1)
          IN /\ ns[i + 1].ev = "start_round" /\ ns[i + 1].round = r
             /\ ns[i + 2].ev = "selected_clients" /\ ns[i + 2].round = r
             /\ ns[i + 3].ev = "end_round" /\ ns[i + 3].round = r
    /\ ns[Len(ns)].ev = "finished"

\* C38: a fit call over a non-empty sample (or of zero rounds) in which no
\* protocol error occurred never stops short: once it has stopped, every
\* start_round(r) was followed by end_round(r) before start_round(r + 1)
\* and finished was notified.
C38_FitRunsToFinished ==
    (/\ pc = "idle" /\ fit.status # "none"
     /\ fit.n_rounds = 0 \/ eligible # <<>>
     /\ fit.status # "ValueError")
        => /\ fit.status = "returned"
           /\ RanToFinished(notes, fit.first, fit.total_rounds)

\* C39: when a notification has been delivered, every observer that was
\* attached when it began and is still attached afterwards, whatever the
\* callbacks detached meanwhile, received it exactly once.
C39_DetachKeepsDelivery ==
    (scall.kind = "notify" /\ scall.status = "ok")
        => \A o \in Range(scall.attached) \cap Range(subscribers) :
              Count(scall.called, o) = 1

\* C40: whenever finished is notified at the end of fit, the callback of the
\* Log returns: the entry history[current_round] it reads exists, for every
\* number of rounds and every eval_every.
C40_LogFinishedFindsEntry ==
    (scall.kind = "notify" /\ scall.note.ev = "finished")
        => /\ scall.status = "ok"
           /\ log.current_round \in log.history

====
